---------------------------- MODULE Spec2Model ----------------------------
(* State-machine model of the download orchestrator (src/src/downloader.py), *)
(* its worker threads (src/src/gui/workers) and the transcription engine     *)
(* adapter and pipeline (src/src/transcriber.py).                            *)
EXTENDS Integers, Sequences, FiniteSets, TLC

(***************************************************************************)
(* Bounds                                                                  *)
(***************************************************************************)
NUrls == 3        \* longest URL list handed to download_batch
MaxHooks == 1     \* progress-hook invocations the engine makes per item
NEntries == 3     \* longest flattened playlist
MaxBatches == 1   \* download_batch runs started on one YouTubeDownloader
MaxFetches == 2   \* get_playlist_info runs started on one YouTubeDownloader
MaxCalls == 3     \* calls made into one Transcriber instance
MaxCaptionSegs == 2  \* segments parsed from one caption document
NItems == 3       \* inputs given to one TranscribeWorker
MaxSegs == 2      \* segments in one transcription result
MaxSrtSegs == 2   \* segments of an exported subtitle document
MaxCues == 3      \* cues of a cue-block subtitle document
MaxDay == 5       \* upload dates and filter dates are the days 1..MaxDay
MaxWords == 3     \* words of a text given to extract_urls_from_text
NShared == 2      \* URLs of a batch and entries of a playlist that run side by side
MaxNameLen == 4   \* characters of a name given to sanitize_filename
MaxAssets == 3    \* assets the provider lists for one caption track
MaxEvents == 2    \* events of a structured-event caption document
MaxCount == 2     \* largest view count, duration and range bound of a filter call
NSpaces == 3      \* longest URL list handed to a SpacesDownloadWorker
MaxVideos == 2    \* videos of a list given to apply_filter

None == -1        \* Python None for numeric / date / model fields

VARIABLES
  \* ---- YouTubeDownloader instance ----
  dl_cancel_flag,     \* self._cancel_flag
  n_ops,              \* operations started so far on the instance
  \* ---- DownloadWorker thread running download_batch ----
  b_pc,               \* position of the batch thread
  b_total,            \* total = len(urls); the urls are 1..b_total
  b_anti_ban,         \* anti_ban argument
  b_i,                \* loop index i (0-based)
  downloaded_files,   \* the result list being accumulated
  b_events,           \* events in the order the thread produced them
  b_dl_calls,         \* b_dl_calls[j]: number of download() calls for url j
  b_hooks,            \* progress-hook calls made in the current download
  b_outcomes,         \* what each download() call did, in call order
  b_broke,            \* the loop was left through the cancellation break
  b_cancel_at,        \* items past the check when cancel() first arrived
  b_term,             \* terminal events emitted by DownloadWorker.run
  \* ---- PlaylistFetchWorker thread running get_playlist_info ----
  pl_pc,
  pl_filter,          \* filter_options
  pl_entries,         \* entries of the flattened playlist
  pl_i,               \* loop index i (0-based)
  videos,             \* the result list being accumulated
  pl_progress,        \* progress_callback invocations <<current, total>>
  pl_resolved,        \* entries resolved by get_video_info: [idx, video]
  pl_broke,           \* the loop was left through the cancellation break
  pl_seen_at,         \* loop index at which the cancel was observed
  pl_cancel_during,   \* cancel() was called since this fetch started
  pl_term,            \* terminal events emitted by PlaylistFetchWorker.run
  \* ---- Transcriber instance ----
  whisper_model,        \* self._whisper_model: "None" or the size it was loaded with
  faster_whisper_model, \* self._faster_whisper_model, likewise
  kotoba_pipeline,      \* self._kotoba_pipeline: "None" or the fixed model
  model_name,           \* self._model_name
  engine,               \* self._engine
  use_kotoba,           \* self._use_kotoba
  model_load_lock,      \* holder of self._model_load_lock, 0 when free
  \* ---- threads calling into the Transcriber ----
  t_pc,               \* position of each thread
  t_arg,              \* model_name argument of the call in progress
  t_branch,           \* engine branch the call in progress has taken
  n_calls,            \* calls started so far on the instance
  t_overlap,          \* the call started while another call was in progress
  t_ret,              \* how the last finished load_whisper_model call ended
  load_calls,         \* invocations of an engine's model-load function
  last_call,          \* the load_whisper_model call that finished last
  t_op,               \* the method each thread called: load, audio or youtube
  \* ---- transcribe_audio / transcribe_youtube call in progress ----
  tr_cancel_flag,     \* Transcriber._cancel_flag
  p_prefer,           \* prefer_youtube_subtitles
  p_captions,         \* what get_youtube_subtitles returned in this call
  p_stages,           \* stages entered, in order
  p_tempdir,          \* the temporary directory: none, exists or removed
  p_result,           \* how the call ended
  p_engine,           \* engine branch taken by the dispatch
  p_cancelled_in,     \* stage during which cancel() first arrived
  stt_calls,          \* invocations of an engine's transcribe function
  \* ---- TranscribeWorker.run ----
  w_pc,               \* idle, loop, call, combine or done
  w_total,            \* len(items)
  w_is_file,          \* options['is_file']
  w_outcomes,         \* how each transcribe call made so far ended
  results,            \* TranscribeWorker.run: results
  w_signals,          \* finished / error signals emitted, in order
  w_callback,         \* the Transcriber's progress callback is set
  \* ---- one pure function applied to an input ----
  call_fn,            \* the function applied last ("none" before any call)
  call_in,            \* its argument
  call_out,           \* what it returned
  \* ---- cancel() called while a batch and a fetch are both running ----
  c_both,             \* where the batch and the fetch were at the first such call
  \* ---- SpacesDownloadWorker ----
  sp_pc,              \* idle, setup, check, extract, download or done
  sp_total,           \* self._total_urls = len(urls)
  sp_idx,             \* loop index idx (0-based)
  sp_cancel_flag,     \* self._cancel_flag
  sp_results,         \* run(): results
  sp_events,          \* signals emitted by the worker, in order
  sp_hooks,           \* progress-hook calls made in the current download
  sp_started,         \* URLs that have passed the per-item check
  sp_cancel           \* where the run was when cancel() was first called

dlVars == <<dl_cancel_flag, n_ops, b_pc, b_total, b_anti_ban, b_i,
            downloaded_files, b_events, b_dl_calls, b_hooks, b_outcomes,
            b_broke, b_cancel_at, b_term, pl_pc, pl_filter, pl_entries, pl_i, videos,
            pl_progress, pl_resolved, pl_broke, pl_seen_at, pl_cancel_during,
            pl_term>>

batchVars == <<b_pc, b_total, b_anti_ban, b_i, downloaded_files, b_events,
               b_dl_calls, b_hooks, b_outcomes, b_broke, b_term>>

fetchVars == <<pl_pc, pl_filter, pl_entries, pl_i, videos, pl_progress,
               pl_resolved, pl_broke, pl_seen_at, pl_term>>

trVars == <<whisper_model, faster_whisper_model, kotoba_pipeline, model_name,
            engine, use_kotoba, model_load_lock, t_pc, t_arg, t_branch,
            n_calls, t_overlap, t_ret, load_calls, last_call, t_op,
            tr_cancel_flag, p_prefer, p_captions, p_stages, p_tempdir, p_result, p_engine,
            p_cancelled_in, stt_calls>>

pipeVars == <<tr_cancel_flag, p_prefer, p_captions, p_stages, p_tempdir, p_result, p_engine,
              p_cancelled_in, stt_calls>>

wkVars == <<w_pc, w_total, w_is_file, w_outcomes, results, w_signals, w_callback>>

\* The state of the components outside the downloader and the transcriber.
pureVars == <<call_fn, call_in, call_out>>

spVars == <<sp_pc, sp_total, sp_idx, sp_cancel_flag, sp_results, sp_events,
            sp_hooks, sp_started, sp_cancel>>

obsVars == <<c_both, spVars>>

extVars == <<wkVars, pureVars, obsVars>>

vars == <<dlVars, trVars, extVars>>

(***************************************************************************)
(* Playlist filter (pure)                                                  *)
(***************************************************************************)
\* str.lower() over the model alphabet {"a", "A", "b"}
LowerChar(c) == IF c = "A" THEN "a" ELSE c

Lower(s) == [k \in 1..Len(s) |-> LowerChar(s[k])]

\* Python `needle in hay` for strings
Contains(hay, needle) ==
  \E k \in 0..(Len(hay) - Len(needle)) :
     \A j \in 1..Len(needle) : hay[k + j] = needle[j]

\* VideoInfo.upload_date is a string; the model keeps its three cases:
\* a day number d > 0 for a parseable 'YYYYMMDD', 0 for '' and -2 for a
\* string strptime rejects or whose length is not 8.
upload_datetime(video) ==
  IF video.upload_date > 0 THEN video.upload_date ELSE None

\* Python truthiness of an Optional[int] and of an Optional[datetime]/[str]
TruthyInt(x) == x # None /\ x # 0

TruthyDate(x) == x # None

TruthyStr(s) == s # <<>>

NoFilter == [none |-> TRUE]

\* Variant of _passes_filter that reads an unset max_views as the bound 0.
_passes_filter_unsetIsZero(video, filter_options) ==
  IF filter_options = NoFilter THEN TRUE
  ELSE
    LET upload_dt == upload_datetime(video)
        title_lower == Lower(video.title)
        max_views == IF filter_options.max_views = None THEN 0 ELSE filter_options.max_views
    IN  /\ (upload_dt # None) =>
              /\ ~(TruthyDate(filter_options.date_from) /\ upload_dt < filter_options.date_from)
              /\ ~(TruthyDate(filter_options.date_to) /\ upload_dt > filter_options.date_to)
        /\ ~(TruthyInt(filter_options.min_views) /\ video.view_count < filter_options.min_views)
        /\ ~(video.view_count > max_views)
        /\ ~(TruthyInt(filter_options.min_duration) /\ video.duration < filter_options.min_duration)
        /\ ~(TruthyInt(filter_options.max_duration) /\ video.duration > filter_options.max_duration)
        /\ (TruthyStr(filter_options.title_contains) =>
               Contains(title_lower, Lower(filter_options.title_contains)))
        /\ (TruthyStr(filter_options.title_excludes) =>
               ~Contains(title_lower, Lower(filter_options.title_excludes)))

_passes_filter(video, filter_options) ==
  IF filter_options = NoFilter THEN TRUE
  ELSE
    LET upload_dt == upload_datetime(video)
        title_lower == Lower(video.title)
    IN  /\ (upload_dt # None) =>
              /\ ~(TruthyDate(filter_options.date_from) /\ upload_dt < filter_options.date_from)
              /\ ~(TruthyDate(filter_options.date_to) /\ upload_dt > filter_options.date_to)
        /\ ~(TruthyInt(filter_options.min_views) /\ video.view_count < filter_options.min_views)
        /\ ~(TruthyInt(filter_options.max_views) /\ video.view_count > filter_options.max_views)
        /\ ~(TruthyInt(filter_options.min_duration) /\ video.duration < filter_options.min_duration)
        /\ ~(TruthyInt(filter_options.max_duration) /\ video.duration > filter_options.max_duration)
        /\ (TruthyStr(filter_options.title_contains) =>
               Contains(title_lower, Lower(filter_options.title_contains)))
        /\ (TruthyStr(filter_options.title_excludes) =>
               ~Contains(title_lower, Lower(filter_options.title_excludes)))

PlaylistFilter == [none |-> FALSE, date_from |-> None, date_to |-> None,
                   min_views |-> None, max_views |-> None,
                   min_duration |-> None, max_duration |-> None,
                   title_contains |-> <<>>, title_excludes |-> <<>>]


(***************************************************************************)
(* YouTubeDownloader: cancellation flag                                    *)
(***************************************************************************)
BatchInLoop == b_pc \in {"check", "delay", "callback", "dl_reset", "dl_run"}

\* get_playlist_info is between its extract_info call and the end of its loop.
FetchInLoop == pl_pc \in {"extract", "loop", "resolve"}

\* Number of entries whose loop iteration has passed the cancellation check.
EntriesPastCheck == IF pl_pc = "resolve" THEN pl_i + 1 ELSE pl_i

NoCancel == [items |-> None, entries |-> None]

\* Number of items whose loop iteration has passed the cancellation check.
ItemsPastCheck == IF b_pc = "check" THEN b_i ELSE b_i + 1

\* cancel(), reached from the cancel buttons, which are enabled only while
\* a worker is running (cancel_download / cancel_fetch).
Cancel ==
  /\ b_pc # "idle" \/ pl_pc # "idle"
  /\ dl_cancel_flag' = TRUE
  /\ b_cancel_at' = IF BatchInLoop /\ b_cancel_at = None
                    THEN ItemsPastCheck ELSE b_cancel_at
  /\ pl_cancel_during' = (pl_cancel_during \/ pl_pc \in {"extract", "single", "loop", "resolve"})
  /\ c_both' = IF BatchInLoop /\ FetchInLoop /\ c_both = NoCancel
               THEN [items |-> ItemsPastCheck, entries |-> EntriesPastCheck]
               ELSE c_both
  /\ UNCHANGED <<wkVars, pureVars, spVars, trVars, n_ops, batchVars, fetchVars>>

(***************************************************************************)
(* download_batch, run by DownloadWorker                                   *)
(***************************************************************************)
Event(kind, item) == [kind |-> kind, item |-> item]

Result(url, kind, cause) == [url |-> url, kind |-> kind, cause |-> cause]

\* DownloadWorker.run calls download_batch: reset_cancel(), empty list.
StartBatch ==
  /\ b_pc = "idle"
  /\ n_ops < MaxBatches
  /\ n_ops' = n_ops + 1
  /\ \E n \in 1..NUrls, ab \in BOOLEAN :
        /\ b_total' = n
        /\ b_anti_ban' = ab
  /\ dl_cancel_flag' = FALSE
  /\ downloaded_files' = <<>>
  /\ b_i' = 0
  /\ b_events' = <<>>
  /\ b_dl_calls' = [j \in 1..NUrls |-> 0]
  /\ b_hooks' = 0
  /\ b_outcomes' = <<>>
  /\ b_broke' = FALSE
  /\ b_cancel_at' = None
  /\ b_term' = <<>>
  /\ b_pc' = "check"
  /\ UNCHANGED <<extVars, trVars, fetchVars, pl_cancel_during>>

\* Variant of BatchCheck that paces every item, the first one included.
BatchCheck_delayFirst ==
  /\ b_pc = "check"
  /\ IF b_i >= b_total
     THEN /\ b_pc' = "returned"
          /\ UNCHANGED b_broke
     ELSE IF dl_cancel_flag
          THEN /\ b_pc' = "returned"
               /\ b_broke' = TRUE
          ELSE /\ b_pc' = IF b_anti_ban THEN "delay" ELSE "callback"
               /\ UNCHANGED b_broke
  /\ UNCHANGED <<extVars, trVars, dl_cancel_flag, n_ops, b_total, b_anti_ban, b_i, downloaded_files,
                 b_events, b_dl_calls, b_hooks, b_outcomes, b_cancel_at, b_term,
                 fetchVars, pl_cancel_during>>

\* Top of the loop: end of the list, or `if self._is_cancelled(): break`.
BatchCheck ==
  /\ b_pc = "check"
  /\ IF b_i >= b_total
     THEN /\ b_pc' = "returned"
          /\ UNCHANGED b_broke
     ELSE IF dl_cancel_flag
          THEN /\ b_pc' = "returned"
               /\ b_broke' = TRUE
          ELSE /\ b_pc' = IF b_anti_ban /\ b_i > 0 THEN "delay" ELSE "callback"
               /\ UNCHANGED b_broke
  /\ UNCHANGED <<extVars, trVars, dl_cancel_flag, n_ops, b_total, b_anti_ban, b_i, downloaded_files,
                 b_events, b_dl_calls, b_hooks, b_outcomes, b_cancel_at, b_term,
                 fetchVars, pl_cancel_during>>

\* time.sleep(random.uniform(3.0, 5.0))
BatchDelay ==
  /\ b_pc = "delay"
  /\ b_events' = Append(b_events, Event("delay", b_i + 1))
  /\ b_pc' = "callback"
  /\ UNCHANGED <<extVars, trVars, dl_cancel_flag, n_ops, b_total, b_anti_ban, b_i, downloaded_files,
                 b_dl_calls, b_hooks, b_outcomes, b_broke, b_cancel_at, b_term,
                 fetchVars, pl_cancel_during>>

\* Variant of BatchItemCallback that reports the 0-based loop index.
BatchItemCallback_zeroBased ==
  /\ b_pc = "callback"
  /\ b_events' = Append(b_events, Event("item", b_i))
  /\ b_pc' = "dl_reset"
  /\ UNCHANGED <<extVars, trVars, dl_cancel_flag, n_ops, b_total, b_anti_ban, b_i, downloaded_files,
                 b_dl_calls, b_hooks, b_outcomes, b_broke, b_cancel_at, b_term,
                 fetchVars, pl_cancel_during>>

\* item_callback(i + 1, total, url)
BatchItemCallback ==
  /\ b_pc = "callback"
  /\ b_events' = Append(b_events, Event("item", b_i + 1))
  /\ b_pc' = "dl_reset"
  /\ UNCHANGED <<extVars, trVars, dl_cancel_flag, n_ops, b_total, b_anti_ban, b_i, downloaded_files,
                 b_dl_calls, b_hooks, b_outcomes, b_broke, b_cancel_at, b_term,
                 fetchVars, pl_cancel_during>>

\* download(url): `self.reset_cancel()` on entry.
DownloadEnter ==
  /\ b_pc = "dl_reset"
  /\ dl_cancel_flag' = FALSE
  /\ b_dl_calls' = [b_dl_calls EXCEPT ![b_i + 1] = @ + 1]
  /\ b_hooks' = 0
  /\ b_pc' = "dl_run"
  /\ UNCHANGED <<extVars, trVars, b_outcomes, n_ops, b_total, b_anti_ban, b_i, downloaded_files, b_events,
                 b_broke, b_cancel_at, b_term, fetchVars, pl_cancel_during>>

\* What one download() call did: returned a value or raised.
Returned(value) == [raised |-> FALSE, value |-> value, msg |-> "none"]

Raised(msg) == [raised |-> TRUE, value |-> "none", msg |-> msg]

\* try/except of the loop body: the returned path, or "ERROR: " + str(e).
BatchEntry(url, outcome) ==
  IF outcome.raised
  THEN Result(url, "error", outcome.msg)
  ELSE Result(url, outcome.value, "none")

\* The loop body after download() returned or raised: one entry appended,
\* then the next iteration.
RecordResult(outcome) ==
  /\ b_outcomes' = Append(b_outcomes, outcome)
  /\ downloaded_files' = Append(downloaded_files, BatchEntry(b_i + 1, outcome))
  /\ b_events' = Append(b_events, Event("result", b_i + 1))
  /\ b_i' = b_i + 1
  /\ b_pc' = "check"

\* _progress_hook called by the engine while the flag is clear: the event
\* reaches the progress callback.
ProgressHook ==
  /\ b_pc = "dl_run"
  /\ b_hooks < MaxHooks
  /\ ~dl_cancel_flag
  /\ b_events' = Append(b_events, Event("progress", b_i + 1))
  /\ b_hooks' = b_hooks + 1
  /\ UNCHANGED <<extVars, trVars, b_outcomes, dl_cancel_flag, n_ops, b_pc, b_total, b_anti_ban, b_i, downloaded_files,
                 b_dl_calls, b_broke, b_cancel_at, b_term, fetchVars,
                 pl_cancel_during>>

\* Variant of ProgressHookCancelled in which the event is delivered although
\* the flag is set.
ProgressHookCancelled_deliver ==
  /\ b_pc = "dl_run"
  /\ b_hooks < MaxHooks
  /\ dl_cancel_flag
  /\ b_events' = Append(b_events, Event("progress", b_i + 1))
  /\ b_hooks' = b_hooks + 1
  /\ UNCHANGED <<extVars, trVars, b_outcomes, dl_cancel_flag, n_ops, b_pc, b_total, b_anti_ban, b_i, downloaded_files,
                 b_dl_calls, b_broke, b_cancel_at, b_term, fetchVars,
                 pl_cancel_during>>

\* _progress_hook called while the flag is set: raises
\* Exception(ERROR_MESSAGES['cancelled']), which download_batch catches.
ProgressHookCancelled ==
  /\ b_pc = "dl_run"
  /\ b_hooks < MaxHooks
  /\ dl_cancel_flag
  /\ RecordResult(Raised("cancelled"))
  /\ UNCHANGED <<extVars, trVars, dl_cancel_flag, n_ops, b_total, b_anti_ban, b_dl_calls, b_hooks,
                 b_broke, b_cancel_at, b_term, fetchVars, pl_cancel_during>>

\* extract_info returned info: download() returns prepare_filename(info).
DownloadSucceed ==
  /\ b_pc = "dl_run"
  /\ RecordResult(Returned("path"))
  /\ UNCHANGED <<extVars, trVars, dl_cancel_flag, n_ops, b_total, b_anti_ban, b_dl_calls, b_hooks,
                 b_broke, b_cancel_at, b_term, fetchVars, pl_cancel_during>>

\* extract_info returned nothing: download() returns ''.
DownloadNoInfo ==
  /\ b_pc = "dl_run"
  /\ RecordResult(Returned("empty"))
  /\ UNCHANGED <<extVars, trVars, dl_cancel_flag, n_ops, b_total, b_anti_ban, b_dl_calls, b_hooks,
                 b_broke, b_cancel_at, b_term, fetchVars, pl_cancel_during>>

\* Variant of DownloadFail in which a failure ends the loop.
DownloadFail_abort ==
  /\ b_pc = "dl_run"
  /\ b_outcomes' = Append(b_outcomes, Raised("engine"))
  /\ downloaded_files' = Append(downloaded_files, BatchEntry(b_i + 1, Raised("engine")))
  /\ b_events' = Append(b_events, Event("result", b_i + 1))
  /\ b_i' = b_i + 1
  /\ b_pc' = "returned"
  /\ UNCHANGED <<extVars, trVars, dl_cancel_flag, n_ops, b_total, b_anti_ban, b_dl_calls, b_hooks,
                 b_broke, b_cancel_at, b_term, fetchVars, pl_cancel_during>>

\* The engine raised (after its own retries): `except Exception` in the
\* loop records "ERROR: ..." and the loop goes on.
DownloadFail ==
  /\ b_pc = "dl_run"
  /\ RecordResult(Raised("engine"))
  /\ UNCHANGED <<extVars, trVars, dl_cancel_flag, n_ops, b_total, b_anti_ban, b_dl_calls, b_hooks,
                 b_broke, b_cancel_at, b_term, fetchVars, pl_cancel_during>>

\* download_batch returned: DownloadWorker.run emits finished(results).
DownloadWorkerFinished ==
  /\ b_pc = "returned"
  /\ b_term' = Append(b_term, "finished")
  /\ b_pc' = "emitted"
  /\ UNCHANGED <<extVars, trVars, dl_cancel_flag, n_ops, b_total, b_anti_ban, b_i, downloaded_files,
                 b_events, b_dl_calls, b_hooks, b_outcomes, b_broke, b_cancel_at,
                 fetchVars, pl_cancel_during>>

\* on_download_finished in the GUI thread: buttons back to idle.
OnDownloadFinished ==
  /\ b_pc = "emitted"
  /\ b_pc' = "idle"
  /\ UNCHANGED <<extVars, trVars, dl_cancel_flag, n_ops, b_total, b_anti_ban, b_i, downloaded_files,
                 b_events, b_dl_calls, b_hooks, b_outcomes, b_broke, b_cancel_at, b_term,
                 fetchVars, pl_cancel_during>>


(***************************************************************************)
(* get_playlist_info, run by PlaylistFetchWorker                           *)
(***************************************************************************)
VideoInfo(id, title, duration, views, date) ==
  [video_id |-> id, title |-> title, duration |-> duration,
   view_count |-> views, upload_date |-> date]

\* Metadata the provider may return for an entry.
SampleVideos == { VideoInfo(1, <<"a", "b">>, 60, 50, 10),
                  VideoInfo(2, <<"A">>, 600, 500, 0) }

\* Filters a caller may pass: none, all fields unset, a view-count range.
SampleFilters == { NoFilter, PlaylistFilter,
                   [PlaylistFilter EXCEPT !.min_views = 100, !.max_views = 1000] }

EntryKinds == {"None", "entry"}

SeqsUpTo(S, n) == UNION { [1..k -> S] : k \in 1..n }

\* PlaylistFetchWorker.run calls get_playlist_info; videos = [].  The
\* cancellation flag is left as it is.
StartFetch ==
  /\ pl_pc = "idle"
  /\ n_ops < MaxFetches
  /\ n_ops' = n_ops + 1
  /\ pl_filter' \in SampleFilters
  /\ pl_entries' = <<>>
  /\ pl_i' = 0
  /\ videos' = <<>>
  /\ pl_progress' = <<>>
  /\ pl_resolved' = <<>>
  /\ pl_broke' = FALSE
  /\ pl_seen_at' = None
  /\ pl_cancel_during' = FALSE
  /\ pl_term' = <<>>
  /\ pl_pc' = "extract"
  /\ UNCHANGED <<extVars, trVars, dl_cancel_flag, batchVars, b_cancel_at>>

\* ydl.extract_info(url, download=False) in flat mode returned entries.
FetchExtractEntries ==
  /\ pl_pc = "extract"
  /\ pl_entries' \in SeqsUpTo(EntryKinds, NEntries)
  /\ pl_pc' = "loop"
  /\ UNCHANGED <<extVars, trVars, dl_cancel_flag, n_ops, batchVars, b_cancel_at, pl_filter, pl_i, videos,
                 pl_progress, pl_resolved, pl_broke, pl_seen_at, pl_cancel_during,
                 pl_term>>

\* extract_info returned nothing (`return []`) or no entries (single video).
FetchExtractOther ==
  /\ pl_pc = "extract"
  /\ pl_pc' \in {"returned", "single"}
  /\ UNCHANGED <<extVars, trVars, dl_cancel_flag, n_ops, batchVars, b_cancel_at, pl_filter, pl_entries, pl_i,
                 videos, pl_progress, pl_resolved, pl_broke, pl_seen_at,
                 pl_cancel_during, pl_term>>

\* extract_info or the single-video get_video_info raised: the exception
\* leaves get_playlist_info and PlaylistFetchWorker.run emits error.
FetchRaise ==
  /\ pl_pc \in {"extract", "single"}
  /\ pl_term' = Append(pl_term, "error")
  /\ pl_pc' = "emitted"
  /\ UNCHANGED <<extVars, trVars, dl_cancel_flag, n_ops, batchVars, b_cancel_at, pl_filter, pl_entries, pl_i,
                 videos, pl_progress, pl_resolved, pl_broke, pl_seen_at,
                 pl_cancel_during>>

\* Single video: get_video_info(url), filtered, returned.
FetchSingle ==
  /\ pl_pc = "single"
  /\ \E v \in SampleVideos :
        /\ pl_resolved' = Append(pl_resolved, [idx |-> 1, video |-> v])
        /\ videos' = IF _passes_filter(v, pl_filter) THEN Append(videos, v) ELSE videos
  /\ pl_pc' = "returned"
  /\ UNCHANGED <<extVars, trVars, dl_cancel_flag, n_ops, batchVars, b_cancel_at, pl_filter, pl_entries, pl_i,
                 pl_progress, pl_broke, pl_seen_at, pl_cancel_during, pl_term>>

\* Variant of FetchCheck that notes the cancellation but does not break.
FetchCheck_noBreak ==
  /\ pl_pc = "loop"
  /\ IF pl_i >= Len(pl_entries)
     THEN /\ pl_pc' = "returned"
          /\ UNCHANGED <<pl_i, pl_progress, pl_broke, pl_seen_at>>
     ELSE /\ pl_broke' = (pl_broke \/ dl_cancel_flag)
          /\ pl_seen_at' = IF dl_cancel_flag /\ pl_seen_at = None THEN pl_i ELSE pl_seen_at
          /\ IF pl_entries[pl_i + 1] = "None"
             THEN /\ pl_i' = pl_i + 1
                  /\ UNCHANGED <<pl_pc, pl_progress>>
             ELSE /\ pl_progress' = Append(pl_progress, <<pl_i + 1, Len(pl_entries)>>)
                  /\ pl_pc' = "resolve"
                  /\ UNCHANGED pl_i
  /\ UNCHANGED <<extVars, trVars, dl_cancel_flag, n_ops, batchVars, b_cancel_at, pl_filter, pl_entries,
                 videos, pl_resolved, pl_cancel_during, pl_term>>

\* Top of the loop body: cancellation check, `entry is None`, progress.
FetchCheck ==
  /\ pl_pc = "loop"
  /\ IF pl_i >= Len(pl_entries)
     THEN /\ pl_pc' = "returned"
          /\ UNCHANGED <<pl_i, pl_progress, pl_broke, pl_seen_at>>
     ELSE IF dl_cancel_flag
          THEN /\ pl_pc' = "returned"
               /\ pl_broke' = TRUE
               /\ pl_seen_at' = pl_i
               /\ UNCHANGED <<pl_i, pl_progress>>
          ELSE IF pl_entries[pl_i + 1] = "None"
               THEN /\ pl_i' = pl_i + 1
                    /\ UNCHANGED <<pl_pc, pl_progress, pl_broke, pl_seen_at>>
               ELSE /\ pl_progress' = Append(pl_progress, <<pl_i + 1, Len(pl_entries)>>)
                    /\ pl_pc' = "resolve"
                    /\ UNCHANGED <<pl_i, pl_broke, pl_seen_at>>
  /\ UNCHANGED <<extVars, trVars, dl_cancel_flag, n_ops, batchVars, b_cancel_at, pl_filter, pl_entries,
                 videos, pl_resolved, pl_cancel_during, pl_term>>

\* get_video_info(video_url) returned; the filter decides inclusion.
FetchResolve ==
  /\ pl_pc = "resolve"
  /\ \E v \in SampleVideos :
        /\ pl_resolved' = Append(pl_resolved, [idx |-> pl_i + 1, video |-> v])
        /\ videos' = IF _passes_filter(v, pl_filter) THEN Append(videos, v) ELSE videos
  /\ pl_i' = pl_i + 1
  /\ pl_pc' = "loop"
  /\ UNCHANGED <<extVars, trVars, dl_cancel_flag, n_ops, batchVars, b_cancel_at, pl_filter, pl_entries,
                 pl_progress, pl_broke, pl_seen_at, pl_cancel_during, pl_term>>

\* get_video_info raised: `except Exception: continue`.
FetchResolveFail ==
  /\ pl_pc = "resolve"
  /\ pl_i' = pl_i + 1
  /\ pl_pc' = "loop"
  /\ UNCHANGED <<extVars, trVars, dl_cancel_flag, n_ops, batchVars, b_cancel_at, pl_filter, pl_entries,
                 videos, pl_progress, pl_resolved, pl_broke, pl_seen_at,
                 pl_cancel_during, pl_term>>

\* get_playlist_info returned: PlaylistFetchWorker.run emits finished.
PlaylistWorkerFinished ==
  /\ pl_pc = "returned"
  /\ pl_term' = Append(pl_term, "finished")
  /\ pl_pc' = "emitted"
  /\ UNCHANGED <<extVars, trVars, dl_cancel_flag, n_ops, batchVars, b_cancel_at, pl_filter, pl_entries, pl_i,
                 videos, pl_progress, pl_resolved, pl_broke, pl_seen_at,
                 pl_cancel_during>>

\* PlaylistTab.on_playlist_fetched / on_playlist_error: the flag is reset
\* only when the list is empty and the flag is set.
OnPlaylistFetched ==
  /\ pl_pc = "emitted"
  /\ dl_cancel_flag' = IF pl_term = <<"finished">> /\ videos = <<>> /\ dl_cancel_flag
                       THEN FALSE ELSE dl_cancel_flag
  /\ pl_pc' = "idle"
  /\ UNCHANGED <<extVars, trVars, n_ops, batchVars, b_cancel_at, pl_filter, pl_entries, pl_i, videos,
                 pl_progress, pl_resolved, pl_broke, pl_seen_at, pl_cancel_during,
                 pl_term>>

\* MainWindow.on_playlist_fetched / on_playlist_error: no reset at all.
OnPlaylistFetchedMain ==
  /\ pl_pc = "emitted"
  /\ pl_pc' = "idle"
  /\ UNCHANGED <<extVars, trVars, dl_cancel_flag, n_ops, batchVars, b_cancel_at, pl_filter, pl_entries, pl_i,
                 videos, pl_progress, pl_resolved, pl_broke, pl_seen_at,
                 pl_cancel_during, pl_term>>

(***************************************************************************)
(* Transcriber: engine selection and model loading                         *)
(***************************************************************************)
Threads == {1, 2}

NoModel == "None"

\* Model sizes passed to load_whisper_model (a subset of WHISPER_MODELS).
ModelSizes == {"base", "large"}

KOTOBA_WHISPER_MODEL == "kotoba-tech/kotoba-whisper-v2.1"

NoResult == [status |-> "none", source |-> "none"]

NoCall == [ok |-> FALSE, branch |-> "none", arg |-> "none", held |-> NoModel]

\* set_engine(engine): only the two known engine names are accepted.
SetEngine ==
  /\ \E e \in {"openai-whisper", "faster-whisper", "whisper-x"} :
        engine' = IF e \in {"openai-whisper", "faster-whisper"} THEN e ELSE engine
  /\ UNCHANGED <<extVars, dlVars, pipeVars, t_op, whisper_model, faster_whisper_model, kotoba_pipeline,
                 model_name, use_kotoba, model_load_lock, t_pc, t_arg, t_branch,
                 n_calls, t_overlap, t_ret, load_calls, last_call>>

\* set_use_kotoba(use_kotoba)
SetUseKotoba ==
  /\ use_kotoba' \in BOOLEAN
  /\ UNCHANGED <<extVars, dlVars, pipeVars, t_op, whisper_model, faster_whisper_model, kotoba_pipeline,
                 model_name, engine, model_load_lock, t_pc, t_arg, t_branch,
                 n_calls, t_overlap, t_ret, load_calls, last_call>>

\* _load_faster_whisper_model: large -> large-v2
FasterName(m) == IF m = "large" THEN "large-v2" ELSE m

\* The name a branch compares with and stores in self._model_name.
BranchName(branch, m) == IF branch = "faster-whisper" THEN FasterName(m) ELSE m

\* Variant of NeedsLoad without the already-loaded test.
NeedsLoad_always(branch, m) == TRUE

\* The `is None or self._model_name != model_name` test of each branch.
NeedsLoad(branch, m) ==
  CASE branch = "kotoba" -> kotoba_pipeline = NoModel
    [] branch = "faster-whisper" ->
          faster_whisper_model = NoModel \/ model_name # BranchName(branch, m)
    [] OTHER -> whisper_model = NoModel \/ model_name # m

\* The model object a branch holds.
HeldModel(branch) ==
  CASE branch = "kotoba" -> kotoba_pipeline
    [] branch = "faster-whisper" -> faster_whisper_model
    [] OTHER -> whisper_model

\* Variant: an exception leaves the temporary directory behind.
CallRaises_leak(t) ==
  /\ p_result' = [status |-> "error", source |-> "none"]
  /\ p_tempdir' = p_tempdir

\* An exception leaves transcribe_audio; in transcribe_youtube it also leaves
\* the `with tempfile.TemporaryDirectory()` block, which removes the directory.
CallRaises(t) ==
  /\ p_result' = [status |-> "error", source |-> "none"]
  /\ p_tempdir' = IF t_op[t] = "youtube" /\ p_tempdir = "exists" THEN "removed" ELSE p_tempdir

\* A thread calls load_whisper_model(model_name).
LoadCall(t) ==
  /\ t_pc[t] = "idle"
  /\ n_calls < MaxCalls
  /\ n_calls' = n_calls + 1
  /\ \E m \in ModelSizes : t_arg' = [t_arg EXCEPT ![t] = m]
  /\ t_branch' = [t_branch EXCEPT ![t] = "none"]
  /\ t_overlap' = [t_overlap EXCEPT ![t] = \E u \in Threads \ {t} : t_pc[u] # "idle"]
  /\ t_op' = [t_op EXCEPT ![t] = "load"]
  /\ t_pc' = [t_pc EXCEPT ![t] = "acquire"]
  /\ UNCHANGED <<extVars, dlVars, pipeVars, whisper_model, faster_whisper_model, kotoba_pipeline,
                 model_name, engine, use_kotoba, model_load_lock, t_ret,
                 load_calls, last_call>>

\* Variant of LoadAcquire that enters without waiting for the lock.
LoadAcquire_noLock(t) ==
  /\ t_pc[t] = "acquire"
  /\ model_load_lock' = t
  /\ t_pc' = [t_pc EXCEPT ![t] = "select"]
  /\ UNCHANGED <<extVars, dlVars, pipeVars, t_op, whisper_model, faster_whisper_model, kotoba_pipeline,
                 model_name, engine, use_kotoba, t_arg, t_branch, n_calls,
                 t_overlap, t_ret, load_calls, last_call>>

\* `with self._model_load_lock:` entered.
LoadAcquire(t) ==
  /\ t_pc[t] = "acquire"
  /\ model_load_lock = 0
  /\ model_load_lock' = t
  /\ t_pc' = [t_pc EXCEPT ![t] = "select"]
  /\ UNCHANGED <<extVars, dlVars, pipeVars, t_op, whisper_model, faster_whisper_model, kotoba_pipeline,
                 model_name, engine, use_kotoba, t_arg, t_branch, n_calls,
                 t_overlap, t_ret, load_calls, last_call>>

\* After a branch is chosen: load if its test says so, else leave.
AfterSelect(t, branch) ==
  /\ t_branch' = [t_branch EXCEPT ![t] = branch]
  /\ t_pc' = [t_pc EXCEPT ![t] = IF NeedsLoad(branch, t_arg[t]) THEN "loading" ELSE "release"]

\* `if self._use_kotoba:` read under the lock.
LoadSelectKotoba(t) ==
  /\ t_pc[t] = "select"
  /\ IF use_kotoba
     THEN AfterSelect(t, "kotoba")
     ELSE /\ t_pc' = [t_pc EXCEPT ![t] = "select_engine"]
          /\ UNCHANGED t_branch
  /\ UNCHANGED <<extVars, dlVars, pipeVars, t_op, whisper_model, faster_whisper_model, kotoba_pipeline,
                 model_name, engine, use_kotoba, model_load_lock, t_arg,
                 n_calls, t_overlap, t_ret, load_calls, last_call>>

\* `if self._engine == 'faster-whisper':` read under the lock.
LoadSelectEngine(t) ==
  /\ t_pc[t] = "select_engine"
  /\ AfterSelect(t, IF engine = "faster-whisper" THEN "faster-whisper" ELSE "openai-whisper")
  /\ UNCHANGED <<extVars, dlVars, pipeVars, t_op, whisper_model, faster_whisper_model, kotoba_pipeline,
                 model_name, engine, use_kotoba, model_load_lock, t_arg,
                 n_calls, t_overlap, t_ret, load_calls, last_call>>

\* The engine's model-load function returned: the model and, for the
\* standard and fast engines, self._model_name are assigned.
LoadModel(t) ==
  /\ t_pc[t] = "loading"
  /\ load_calls' = load_calls + 1
  /\ CASE t_branch[t] = "kotoba" ->
            /\ kotoba_pipeline' = KOTOBA_WHISPER_MODEL
            /\ UNCHANGED <<whisper_model, faster_whisper_model, model_name>>
       [] t_branch[t] = "faster-whisper" ->
            /\ faster_whisper_model' = BranchName(t_branch[t], t_arg[t])
            /\ model_name' = BranchName(t_branch[t], t_arg[t])
            /\ UNCHANGED <<whisper_model, kotoba_pipeline>>
       [] OTHER ->
            /\ whisper_model' = t_arg[t]
            /\ model_name' = t_arg[t]
            /\ UNCHANGED <<faster_whisper_model, kotoba_pipeline>>
  /\ t_pc' = [t_pc EXCEPT ![t] = "release"]
  /\ UNCHANGED <<extVars, dlVars, pipeVars, t_op, engine, use_kotoba, model_load_lock, t_arg,
                 t_branch, n_calls, t_overlap, t_ret, last_call>>

\* Variant of LoadModelFail in which a failed load drops the model the
\* branch held.
LoadModelFail_clear(t) ==
  /\ t_pc[t] = "loading"
  /\ load_calls' = load_calls + 1
  /\ model_load_lock' = 0
  /\ t_ret' = [t_ret EXCEPT ![t] = [ok |-> FALSE, branch |-> t_branch[t],
                                    arg |-> t_arg[t], held |-> HeldModel(t_branch[t])]]
  /\ last_call' = [ok |-> FALSE, branch |-> t_branch[t], arg |-> t_arg[t],
                   held |-> HeldModel(t_branch[t])]
  /\ t_pc' = [t_pc EXCEPT ![t] = "idle"]
  /\ IF t_op[t] = "load"
     THEN UNCHANGED <<p_result, p_tempdir>>
     ELSE CallRaises(t)
  /\ whisper_model' = IF t_branch[t] = "openai-whisper" THEN NoModel ELSE whisper_model
  /\ faster_whisper_model' = IF t_branch[t] = "faster-whisper" THEN NoModel ELSE faster_whisper_model
  /\ kotoba_pipeline' = IF t_branch[t] = "kotoba" THEN NoModel ELSE kotoba_pipeline
  /\ UNCHANGED <<extVars, dlVars, t_op, tr_cancel_flag, p_prefer, p_captions, p_stages, p_engine,
                 p_cancelled_in, stt_calls, model_name, engine, use_kotoba, t_arg,
                 t_branch, n_calls, t_overlap>>

\* The import or the engine's model-load function raised: the exception
\* leaves the `with` block, which releases the lock.
LoadModelFail(t) ==
  /\ t_pc[t] = "loading"
  /\ load_calls' = load_calls + 1
  /\ model_load_lock' = 0
  /\ t_ret' = [t_ret EXCEPT ![t] = [ok |-> FALSE, branch |-> t_branch[t],
                                    arg |-> t_arg[t], held |-> HeldModel(t_branch[t])]]
  /\ last_call' = [ok |-> FALSE, branch |-> t_branch[t], arg |-> t_arg[t],
                   held |-> HeldModel(t_branch[t])]
  /\ t_pc' = [t_pc EXCEPT ![t] = "idle"]
  /\ IF t_op[t] = "load"
     THEN UNCHANGED <<p_result, p_tempdir>>
     ELSE CallRaises(t)
  /\ UNCHANGED <<extVars, dlVars, t_op, tr_cancel_flag, p_prefer, p_captions, p_stages, p_engine,
                 p_cancelled_in, stt_calls, whisper_model, faster_whisper_model,
                 kotoba_pipeline, model_name, engine, use_kotoba, t_arg,
                 t_branch, n_calls, t_overlap>>

\* End of the `with` block: load_whisper_model returns.
LoadRelease(t) ==
  /\ t_pc[t] = "release"
  /\ model_load_lock' = 0
  /\ t_ret' = [t_ret EXCEPT ![t] = [ok |-> TRUE, branch |-> t_branch[t],
                                    arg |-> t_arg[t], held |-> HeldModel(t_branch[t])]]
  /\ last_call' = [ok |-> TRUE, branch |-> t_branch[t], arg |-> t_arg[t],
                   held |-> HeldModel(t_branch[t])]
  /\ t_pc' = [t_pc EXCEPT ![t] = IF t_op[t] = "load" THEN "idle" ELSE "transcribing"]
  /\ UNCHANGED <<extVars, dlVars, pipeVars, t_op, whisper_model, faster_whisper_model, kotoba_pipeline,
                 model_name, engine, use_kotoba, t_arg, t_branch, n_calls,
                 t_overlap, load_calls>>

(***************************************************************************)
(* Transcriber: transcribe_youtube and transcribe_audio                    *)
(***************************************************************************)
\* The thread that runs the transcription calls (TranscribeWorker).
PipeThreads == {1}

loadState == <<whisper_model, faster_whisper_model, kotoba_pipeline, model_name,
               model_load_lock, t_arg, t_branch, t_overlap, t_ret, load_calls,
               last_call>>

\* cancel() on the Transcriber while a call is in progress.
TrCancel ==
  /\ \E t \in PipeThreads : t_pc[t] # "idle"
  /\ tr_cancel_flag' = TRUE
  /\ p_cancelled_in' =
        IF p_cancelled_in # "none" THEN p_cancelled_in
        ELSE IF \E t \in PipeThreads : t_op[t] = "youtube" /\ t_pc[t] \in {"captions", "captions_done"}
             THEN "captions"
             ELSE IF \E t \in PipeThreads : t_op[t] = "youtube" /\ t_pc[t] = "downloading"
                  THEN "downloading"
                  ELSE "other"
  /\ UNCHANGED <<extVars, dlVars, loadState, engine, use_kotoba, t_pc, n_calls, t_op,
                 p_prefer, p_captions, p_stages, p_tempdir, p_result, p_engine, stt_calls>>

\* What get_youtube_subtitles returns: None, or a TranscriptResult with the
\* parsed segments.
NotFetched == [ret |-> "not_fetched", segments |-> 0]
CaptionsNone == [ret |-> "None", segments |-> 0]
CaptionsResult(n) == [ret |-> "result", segments |-> n]

\* Per-call bookkeeping at the start of a transcription call.
NewCall(t, op) ==
  /\ t_pc[t] = "idle"
  /\ n_calls < MaxCalls
  /\ n_calls' = n_calls + 1
  /\ t_op' = [t_op EXCEPT ![t] = op]
  /\ \E m \in ModelSizes : t_arg' = [t_arg EXCEPT ![t] = m]
  /\ t_branch' = [t_branch EXCEPT ![t] = "none"]
  /\ p_tempdir' = "none"
  /\ p_result' = NoResult
  /\ p_engine' = "none"
  /\ p_cancelled_in' = "none"
  /\ stt_calls' = 0

\* transcribe_youtube(url, ..): reset_cancel(), then the caption fetch when
\* prefer_youtube_subtitles, else straight to the audio download.
YtCall(t) ==
  /\ NewCall(t, "youtube")
  /\ tr_cancel_flag' = FALSE
  /\ p_prefer' \in BOOLEAN
  /\ p_captions' = NotFetched
  /\ p_stages' = IF p_prefer' THEN <<"fetching">> ELSE <<>>
  /\ t_pc' = [t_pc EXCEPT ![t] = IF p_prefer' THEN "captions" ELSE "download_start"]
  /\ UNCHANGED <<extVars, dlVars, whisper_model, faster_whisper_model, kotoba_pipeline,
                 model_name, model_load_lock, t_overlap, t_ret, load_calls,
                 last_call, engine, use_kotoba>>

\* Why get_youtube_subtitles returns None: no info, no subtitle track in a
\* tried language, no vtt/srt/json3 asset, or an exception in the fetch.
CaptionFailures == {"no_info", "no_track", "no_asset", "error"}

\* get_youtube_subtitles(url, language): reports 'fetching'; returns None
\* (after reporting 'error' when an exception was caught), or reports
\* 'completed' and returns the parsed segments, which may be none.
YtCaptions(t) ==
  /\ t_pc[t] = "captions"
  /\ \/ \E why \in CaptionFailures :
           /\ p_captions' = CaptionsNone
           /\ p_stages' = IF why = "error"
                          THEN p_stages \o <<"fetching", "error">>
                          ELSE Append(p_stages, "fetching")
     \/ \E n \in 0..MaxCaptionSegs :
           /\ p_captions' = CaptionsResult(n)
           /\ p_stages' = p_stages \o <<"fetching", "completed">>
  /\ t_pc' = [t_pc EXCEPT ![t] = "captions_done"]
  /\ UNCHANGED <<extVars, dlVars, loadState, engine, use_kotoba, n_calls, t_op,
                 tr_cancel_flag, p_prefer, p_tempdir, p_result, p_engine,
                 p_cancelled_in, stt_calls>>

\* `result and result.segments`
UsableCaptions(c) == c.ret = "result" /\ c.segments > 0

\* Variant: the captions are recorded as the result, and the audio is
\* downloaded all the same.
YtCaptionsFound_continue(t) ==
  /\ t_pc[t] = "captions_done"
  /\ UsableCaptions(p_captions)
  /\ p_result' = [status |-> "ok", source |-> "youtube"]
  /\ t_pc' = [t_pc EXCEPT ![t] = "download_start"]
  /\ UNCHANGED <<extVars, dlVars, loadState, engine, use_kotoba, n_calls, t_op,
                 tr_cancel_flag, p_prefer, p_captions, p_stages, p_tempdir, p_engine,
                 p_cancelled_in, stt_calls>>

\* get_youtube_subtitles returned a result with segments: it is returned.
YtCaptionsFound(t) ==
  /\ t_pc[t] = "captions_done"
  /\ UsableCaptions(p_captions)
  /\ p_result' = [status |-> "ok", source |-> "youtube"]
  /\ t_pc' = [t_pc EXCEPT ![t] = "idle"]
  /\ UNCHANGED <<extVars, dlVars, loadState, engine, use_kotoba, n_calls, t_op,
                 tr_cancel_flag, p_prefer, p_captions, p_stages, p_tempdir, p_engine,
                 p_cancelled_in, stt_calls>>

\* Variant: a caption fetch without segments ends the call with an error.
YtCaptionsNone_raise(t) ==
  /\ t_pc[t] = "captions_done"
  /\ ~UsableCaptions(p_captions)
  /\ CallRaises(t)
  /\ t_pc' = [t_pc EXCEPT ![t] = "idle"]
  /\ UNCHANGED <<extVars, dlVars, loadState, engine, use_kotoba, n_calls, t_op,
                 tr_cancel_flag, p_prefer, p_captions, p_stages, p_engine,
                 p_cancelled_in, stt_calls>>

\* get_youtube_subtitles returned None or a result without segments.
YtCaptionsNone(t) ==
  /\ t_pc[t] = "captions_done"
  /\ ~UsableCaptions(p_captions)
  /\ t_pc' = [t_pc EXCEPT ![t] = "download_start"]
  /\ UNCHANGED <<extVars, dlVars, loadState, engine, use_kotoba, n_calls, t_op,
                 pipeVars>>

\* 'downloading' is reported and the temporary directory is created.
YtDownloadStart(t) ==
  /\ t_pc[t] = "download_start"
  /\ p_stages' = Append(p_stages, "downloading")
  /\ p_tempdir' = "exists"
  /\ t_pc' = [t_pc EXCEPT ![t] = "downloading"]
  /\ UNCHANGED <<extVars, dlVars, loadState, engine, use_kotoba, n_calls, t_op,
                 tr_cancel_flag, p_prefer, p_captions, p_result, p_engine, p_cancelled_in,
                 stt_calls>>

\* The audio was downloaded and the file exists: transcribe_audio is called.
YtDownloadOk(t) ==
  /\ t_pc[t] = "downloading"
  /\ t_pc' = [t_pc EXCEPT ![t] = "audio_enter"]
  /\ UNCHANGED <<extVars, dlVars, loadState, engine, use_kotoba, n_calls, t_op,
                 pipeVars>>

\* extract_info raised, or no audio file was found.
YtDownloadFail(t) ==
  /\ t_pc[t] = "downloading"
  /\ CallRaises(t)
  /\ t_pc' = [t_pc EXCEPT ![t] = "idle"]
  /\ UNCHANGED <<extVars, dlVars, loadState, engine, use_kotoba, n_calls, t_op,
                 tr_cancel_flag, p_prefer, p_captions, p_stages, p_engine, p_cancelled_in,
                 stt_calls>>

\* transcribe_audio(path, ..) called directly (a local file).
AudioCall(t) ==
  /\ NewCall(t, "audio")
  /\ p_prefer' = FALSE
  /\ p_captions' = NotFetched
  /\ p_stages' = <<>>
  /\ t_pc' = [t_pc EXCEPT ![t] = "audio_enter"]
  /\ UNCHANGED <<extVars, dlVars, whisper_model, faster_whisper_model, kotoba_pipeline,
                 model_name, model_load_lock, t_overlap, t_ret, load_calls,
                 last_call, engine, use_kotoba, tr_cancel_flag>>

\* transcribe_audio: reset_cancel(), then load_whisper_model(model_name).
AudioEnter(t) ==
  /\ t_pc[t] = "audio_enter"
  /\ tr_cancel_flag' = FALSE
  /\ t_pc' = [t_pc EXCEPT ![t] = "acquire"]
  /\ UNCHANGED <<extVars, dlVars, loadState, engine, use_kotoba, n_calls, t_op,
                 p_prefer, p_captions, p_stages, p_tempdir, p_result, p_engine,
                 p_cancelled_in, stt_calls>>

\* _report_progress('transcribing', ..)
AudioReport(t) ==
  /\ t_pc[t] = "transcribing"
  /\ p_stages' = Append(p_stages, "transcribing")
  /\ t_pc' = [t_pc EXCEPT ![t] = "dispatch"]
  /\ UNCHANGED <<extVars, dlVars, loadState, engine, use_kotoba, n_calls, t_op,
                 tr_cancel_flag, p_prefer, p_captions, p_tempdir, p_result, p_engine,
                 p_cancelled_in, stt_calls>>

\* `if self._use_kotoba:` of the dispatch.
AudioDispatchKotoba(t) ==
  /\ t_pc[t] = "dispatch"
  /\ IF use_kotoba
     THEN /\ p_engine' = "kotoba"
          /\ t_pc' = [t_pc EXCEPT ![t] = "stt"]
     ELSE /\ t_pc' = [t_pc EXCEPT ![t] = "dispatch_engine"]
          /\ UNCHANGED p_engine
  /\ UNCHANGED <<extVars, dlVars, loadState, engine, use_kotoba, n_calls, t_op,
                 tr_cancel_flag, p_prefer, p_captions, p_stages, p_tempdir, p_result,
                 p_cancelled_in, stt_calls>>

\* `if self._engine == 'faster-whisper':` of the dispatch.
AudioDispatchEngine(t) ==
  /\ t_pc[t] = "dispatch_engine"
  /\ p_engine' = IF engine = "faster-whisper" THEN "faster-whisper" ELSE "openai-whisper"
  /\ t_pc' = [t_pc EXCEPT ![t] = "stt"]
  /\ UNCHANGED <<extVars, dlVars, loadState, engine, use_kotoba, n_calls, t_op,
                 tr_cancel_flag, p_prefer, p_captions, p_stages, p_tempdir, p_result,
                 p_cancelled_in, stt_calls>>

\* source tag of each _transcribe_with_* method
SourceTag(branch) ==
  CASE branch = "kotoba" -> "kotoba-whisper"
    [] branch = "faster-whisper" -> "faster-whisper"
    [] OTHER -> "whisper"

\* The engine transcribed the file: the result is returned; leaving
\* transcribe_youtube removes the temporary directory.
SttOk(t) ==
  /\ t_pc[t] = "stt"
  /\ HeldModel(p_engine) # NoModel
  /\ stt_calls' = stt_calls + 1
  /\ p_result' = [status |-> "ok", source |-> SourceTag(p_engine)]
  /\ p_tempdir' = IF t_op[t] = "youtube" THEN "removed" ELSE p_tempdir
  /\ t_pc' = [t_pc EXCEPT ![t] = "idle"]
  /\ UNCHANGED <<extVars, dlVars, loadState, engine, use_kotoba, n_calls, t_op,
                 tr_cancel_flag, p_prefer, p_captions, p_stages, p_engine, p_cancelled_in>>

\* The engine's transcribe call raised.
SttFail(t) ==
  /\ t_pc[t] = "stt"
  /\ HeldModel(p_engine) # NoModel
  /\ stt_calls' = stt_calls + 1
  /\ CallRaises(t)
  /\ t_pc' = [t_pc EXCEPT ![t] = "idle"]
  /\ UNCHANGED <<extVars, dlVars, loadState, engine, use_kotoba, n_calls, t_op,
                 tr_cancel_flag, p_prefer, p_captions, p_stages, p_engine, p_cancelled_in>>

\* The dispatched engine's model attribute is None: the call on it raises.
SttNoModel(t) ==
  /\ t_pc[t] = "stt"
  /\ HeldModel(p_engine) = NoModel
  /\ CallRaises(t)
  /\ t_pc' = [t_pc EXCEPT ![t] = "idle"]
  /\ UNCHANGED <<extVars, dlVars, loadState, engine, use_kotoba, n_calls, t_op,
                 tr_cancel_flag, p_prefer, p_captions, p_stages, p_engine, p_cancelled_in,
                 stt_calls>>

(***************************************************************************)
(* TranscribeWorker (gui/workers/transcribe_worker.py)                     *)
(***************************************************************************)
\* The TranscriptResult of input `item` with n segments; a segment is named
\* by its input and its position in that input's result.
ItemResult(item, n, source) ==
  [video_title |-> item, video_id |-> item, source |-> source,
   segments |-> [k \in 1..n |-> [item |-> item, k |-> k]]]

\* run(): the progress callback is set, items = the list (or the single
\* input wrapped in a list), results = [].
TwStart ==
  /\ w_pc = "idle"
  /\ w_total' \in 1..NItems
  /\ w_is_file' \in BOOLEAN
  /\ w_callback' = TRUE
  /\ results' = <<>>
  /\ w_outcomes' = <<>>
  /\ w_signals' = <<>>
  /\ w_pc' = "loop"
  /\ UNCHANGED <<dlVars, trVars, pureVars, obsVars>>

\* `for i, item in enumerate(items):` with the 'processing' progress event.
TwNextItem ==
  /\ w_pc = "loop"
  /\ w_pc' = IF Len(results) < w_total THEN "call" ELSE "combine"
  /\ UNCHANGED <<dlVars, trVars, pureVars, obsVars, w_total, w_is_file, w_outcomes, results, w_signals,
                 w_callback>>

\* transcribe_audio / transcribe_youtube returned: results.append(result).
TwItemOk ==
  /\ w_pc = "call"
  /\ \E n \in 0..MaxSegs :
        LET item == Len(results) + 1
            source == IF w_is_file THEN "whisper" ELSE "youtube"
        IN  /\ results' = Append(results, ItemResult(item, n, source))
            /\ w_outcomes' = Append(w_outcomes, "ok")
  /\ w_pc' = "loop"
  /\ UNCHANGED <<dlVars, trVars, pureVars, obsVars, w_total, w_is_file, w_signals, w_callback>>

\* Variant of TwItemFail in which the loop goes on after the error signal.
TwItemFail_goOn ==
  /\ w_pc = "call"
  /\ w_outcomes' = Append(w_outcomes, "raised")
  /\ w_signals' = Append(w_signals, [kind |-> "error"])
  /\ results' = Append(results, ItemResult(Len(results) + 1, 0, "whisper"))
  /\ w_pc' = "loop"
  /\ UNCHANGED <<dlVars, trVars, pureVars, obsVars, w_total, w_is_file, w_callback>>

\* The transcribe call raised: `except Exception` emits error(str(e)), and
\* `finally` clears the progress callback; run() ends.
TwItemFail ==
  /\ w_pc = "call"
  /\ w_outcomes' = Append(w_outcomes, "raised")
  /\ w_signals' = Append(w_signals, [kind |-> "error"])
  /\ w_callback' = FALSE
  /\ w_pc' = "done"
  /\ UNCHANGED <<dlVars, trVars, pureVars, obsVars, w_total, w_is_file, results>>

\* combined_segments of _combine_results: extend() with every result's
\* segments in turn.
RECURSIVE combined_segments(_)
combined_segments(rs) ==
  IF rs = <<>> THEN <<>>
  ELSE combined_segments(SubSeq(rs, 1, Len(rs) - 1)) \o rs[Len(rs)].segments

\* Variant: only the first result's segments are kept.
_combine_results_firstOnly(rs) ==
  [video_title |-> rs[1].video_title, video_id |-> rs[1].video_id,
   source |-> rs[1].source, segments |-> rs[1].segments]

\* _combine_results(results); the title suffix is left out.
_combine_results(rs) ==
  [video_title |-> rs[1].video_title, video_id |-> rs[1].video_id,
   source |-> rs[1].source, segments |-> combined_segments(rs)]

\* After the loop: finished.emit(results[0]) for one result, else
\* finished.emit(_combine_results(results)); `finally` clears the callback.
TwFinish ==
  /\ w_pc = "combine"
  /\ w_signals' = Append(w_signals,
        [kind |-> "finished",
         result |-> IF Len(results) = 1 THEN results[1] ELSE _combine_results(results)])
  /\ w_callback' = FALSE
  /\ w_pc' = "done"
  /\ UNCHANGED <<dlVars, trVars, pureVars, obsVars, w_total, w_is_file, w_outcomes, results>>

\* The thread has ended; the window may start another worker.
TwIdle ==
  /\ w_pc = "done"
  /\ w_pc' = "idle"
  /\ UNCHANGED <<dlVars, trVars, pureVars, obsVars, w_total, w_is_file, w_outcomes, results, w_signals,
                 w_callback>>

(***************************************************************************)
(* Subtitle export and parsing (pure)                                      *)
(*                                                                         *)
(* A time is a whole number of milliseconds k, standing for the float      *)
(* k / 1000.  A text is a sequence of characters.  A document is the       *)
(* sequence of its lines (the text between two newlines); a line is a      *)
(* number line, a timestamp line or a line of characters.                  *)
(***************************************************************************)
WhitespaceChars == {" ", "\n", "\t"}

NumLine(i) == [kind |-> "num", num |-> i, from |-> <<>>, to |-> <<>>, chars |-> <<>>]
TimeLine(from, to) == [kind |-> "time", num |-> 0, from |-> from, to |-> to, chars |-> <<>>]
TextLine(chars) == [kind |-> "text", num |-> 0, from |-> <<>>, to |-> <<>>, chars |-> chars]

\* Times k >= 1000 for which the double (k / 1000 % 1) * 1000 lies just
\* below the whole number k % 1000, so that int() gives one less (IEEE-754
\* double arithmetic, tabulated for the times of SrtTimes).
SrtTimes == {0, 999, 1000, 1001, 1002, 1003, 2001, 3661002, 3661003}
TruncatedTimes == {1001, 1003, 2001, 3661002}

\* TranscriptResult._format_srt_time(seconds): the four numbers printed as
\* HH:MM:SS,mmm.
_format_srt_time(k) ==
  <<k \div 3600000, (k % 3600000) \div 60000, (k % 60000) \div 1000,
    IF k \in TruncatedTimes THEN (k % 1000) - 1 ELSE k % 1000>>

\* str.split('\n') of a text.
RECURSIVE SplitLines(_)
SplitLines(chars) ==
  IF \A k \in 1..Len(chars) : chars[k] # "\n"
  THEN <<chars>>
  ELSE LET k == CHOOSE j \in 1..Len(chars) :
                   chars[j] = "\n" /\ \A h \in 1..(j - 1) : chars[h] # "\n"
       IN  <<SubSeq(chars, 1, k - 1)>> \o SplitLines(SubSeq(chars, k + 1, Len(chars)))

\* str.rstrip() and str.lstrip() of the characters of one line.
RECURSIVE RStripChars(_)
RStripChars(chars) ==
  IF chars # <<>> /\ chars[Len(chars)] \in WhitespaceChars
  THEN RStripChars(SubSeq(chars, 1, Len(chars) - 1))
  ELSE chars

RECURSIVE LStripChars(_)
LStripChars(chars) ==
  IF chars # <<>> /\ chars[1] \in WhitespaceChars
  THEN LStripChars(Tail(chars))
  ELSE chars

\* A line that holds nothing but whitespace.
IsBlank(line) == line.kind = "text" /\ RStripChars(line.chars) = <<>>

\* str.rstrip() of the lines joined by newlines: blank lines at the end go,
\* and the last remaining line loses its trailing whitespace.
RECURSIVE RStripLines(_)
RStripLines(lines) ==
  IF lines = <<>> THEN <<>>
  ELSE LET last == lines[Len(lines)]
       IN  IF IsBlank(last)
           THEN RStripLines(SubSeq(lines, 1, Len(lines) - 1))
           ELSE IF last.kind = "text"
                THEN SubSeq(lines, 1, Len(lines) - 1) \o <<TextLine(RStripChars(last.chars))>>
                ELSE lines

\* str.lstrip() of the lines joined by newlines.
RECURSIVE LStripLines(_)
LStripLines(lines) ==
  IF lines = <<>> THEN <<>>
  ELSE IF IsBlank(lines[1])
       THEN LStripLines(Tail(lines))
       ELSE IF lines[1].kind = "text"
            THEN <<TextLine(LStripChars(lines[1].chars))>> \o Tail(lines)
            ELSE lines

\* str.strip()
StripLines(lines) == LStripLines(RStripLines(lines))

\* The lines list of to_srt: number, timestamps, text, '' for every segment.
RECURSIVE SrtLines(_, _)
SrtLines(segments, i) ==
  IF i > Len(segments) THEN <<>>
  ELSE LET seg == segments[i]
           text_lines == SplitLines(seg.text)
       IN  <<NumLine(i), TimeLine(_format_srt_time(seg.start), _format_srt_time(seg.end))>>
           \o [k \in 1..Len(text_lines) |-> TextLine(text_lines[k])]
           \o <<TextLine(<<>>)>>
           \o SrtLines(segments, i + 1)

\* TranscriptResult.to_srt(): '\n'.join(lines).rstrip() + '\n'; the lines of
\* the document before its final newline.
to_srt(segments) == RStripLines(SrtLines(segments, 1))

\* re.split(r'\n\n+', content) of a stripped document: the blocks between
\* runs of empty lines; `block` holds the lines of the block being read.
RECURSIVE SplitBlocks(_, _)
SplitBlocks(lines, block) ==
  IF lines = <<>> THEN <<block>>
  ELSE IF lines[1] = TextLine(<<>>)
       THEN IF block = <<>>
            THEN SplitBlocks(Tail(lines), <<>>)
            ELSE <<block>> \o SplitBlocks(Tail(lines), <<>>)
       ELSE SplitBlocks(Tail(lines), Append(block, lines[1]))

\* The characters of a line as a text line of a block.
LineChars(line) == IF line.kind = "text" THEN line.chars ELSE <<"#">>

\* ' '.join(lines)
RECURSIVE JoinSpace(_)
JoinSpace(lines) ==
  IF lines = <<>> THEN <<>>
  ELSE IF Len(lines) = 1 THEN LineChars(lines[1])
       ELSE LineChars(lines[1]) \o <<" ">> \o JoinSpace(Tail(lines))

\* hours * 3600 + minutes * 60 + seconds + ms / 1000 of a matched timestamp.
SrtTimeValue(g) == g[1] * 3600000 + g[2] * 60000 + g[3] * 1000 + g[4]

TranscriptSegment(start, end, text) == [start |-> start, end |-> end, text |-> text]

\* The loop of _parse_srt over the blocks from the i-th on.
RECURSIVE ParseSrtBlocks(_, _)
ParseSrtBlocks(blocks, i) ==
  IF i > Len(blocks) THEN <<>>
  ELSE LET lines == StripLines(blocks[i])
       IN  (IF Len(lines) >= 3 /\ lines[2].kind = "time"
            THEN <<TranscriptSegment(SrtTimeValue(lines[2].from), SrtTimeValue(lines[2].to),
                                     JoinSpace(SubSeq(lines, 3, Len(lines))))>>
            ELSE <<>>)
           \o ParseSrtBlocks(blocks, i + 1)

\* Transcriber._parse_srt(content)
_parse_srt(doc) == ParseSrtBlocks(SplitBlocks(StripLines(doc), <<>>), 1)

\* Segments used as inputs of the export.
SrtTexts ==
  {<<>>, <<"a">>, <<"a", " ">>, <<" ", "a">>, <<"a", " ", "b">>, <<"a", "\n", "b">>}
SrtSpans == {<<0, 999>>, <<1000, 1001>>, <<1002, 1003>>, <<2001, 3661002>>, <<3661002, 3661003>>}

\* One more segment is added to the result that will be exported.
SrtAddSegment ==
  /\ call_fn \in {"none", "segments"}
  /\ Len(call_in) < MaxSrtSegs
  /\ \E span \in SrtSpans, text \in SrtTexts :
        call_in' = Append(call_in, TranscriptSegment(span[1], span[2], text))
  /\ call_fn' = "segments"
  /\ UNCHANGED <<dlVars, trVars, wkVars, obsVars, call_out>>

\* The result is exported with to_srt() and the document is parsed again.
SrtRoundTrip ==
  /\ call_fn \in {"none", "segments"}
  /\ call_fn' = "srt_round_trip"
  /\ call_out' = _parse_srt(to_srt(call_in))
  /\ UNCHANGED <<dlVars, trVars, wkVars, obsVars, call_in>>

(***************************************************************************)
(* Cue-block (VTT) parser (pure)                                           *)
(*                                                                         *)
(* A timestamp line that the parser's pattern matches is a TimeLine whose  *)
(* from and to are <<hours or None, minutes, seconds, fraction digits>>.   *)
(* Every other line is a TextLine; "-->" and a tag such as "<i>" are single *)
(* characters of it.                                                       *)
(***************************************************************************)
VttTags == {"<i>", "</i>"}

\* line.strip()
StripLine(line) ==
  IF line.kind = "text" THEN TextLine(LStripChars(RStripChars(line.chars))) ELSE line

\* '-->' in line
HasArrow(line) ==
  \/ line.kind = "time"
  \/ line.kind = "text" /\ \E k \in 1..Len(line.chars) : line.chars[k] = "-->"

\* re.match of the timestamp pattern on the line
MatchesVttTime(line) == line.kind = "time"

\* int(ms.ljust(3, '0')[:3])
VttMsVal(digits) ==
  LET d(k) == IF k <= Len(digits) THEN digits[k] ELSE 0
  IN  d(1) * 100 + d(2) * 10 + d(3)

\* Transcriber._parse_vtt_time(hours, minutes, seconds, ms), in ms
_parse_vtt_time(g) ==
  (IF g[1] = None THEN 0 ELSE g[1]) * 3600000 + g[2] * 60000 + g[3] * 1000
    + VttMsVal(g[4])

\* re.sub(r'<[^>]+>', '', text_line)
RemoveTags(chars) ==
  LET NotTag(c) == c \notin VttTags
  IN  SelectSeq(chars, NotTag)

\* The inner loop of _parse_vtt: the index of the first line from j on that
\* is blank or holds '-->', or len(lines) + 1.
RECURSIVE TextEnd(_, _)
TextEnd(lines, j) ==
  IF j <= Len(lines) /\ ~IsBlank(lines[j]) /\ ~HasArrow(lines[j])
  THEN TextEnd(lines, j + 1)
  ELSE j

\* text_lines of a cue whose text runs from line i to line j - 1: stripped,
\* tags removed, empty lines left out.
CueTextLines(lines, i, j) ==
  LET cleaned == [k \in 1..(j - i) |->
                     TextLine(RemoveTags(StripLine(lines[i + k - 1]).chars))]
      NonEmpty(l) == l.chars # <<>>
  IN  SelectSeq(cleaned, NonEmpty)

\* Variant: a line with '-->' that the pattern does not match is taken as
\* the start of a cue at time 0.
RECURSIVE ParseVttFrom_lenient(_, _)
ParseVttFrom_lenient(lines, i) ==
  IF i > Len(lines) THEN <<>>
  ELSE LET line == StripLine(lines[i])
       IN  IF HasArrow(line)
           THEN LET j == TextEnd(lines, i + 1)
                    text_lines == CueTextLines(lines, i + 1, j)
                    from == IF MatchesVttTime(line) THEN _parse_vtt_time(line.from) ELSE 0
                    to == IF MatchesVttTime(line) THEN _parse_vtt_time(line.to) ELSE 0
                IN  (IF text_lines # <<>>
                     THEN <<TranscriptSegment(from, to, JoinSpace(text_lines))>>
                     ELSE <<>>)
                    \o ParseVttFrom_lenient(lines, j)
           ELSE ParseVttFrom_lenient(lines, i + 1)

\* The outer loop of _parse_vtt from line i on.
RECURSIVE ParseVttFrom(_, _)
ParseVttFrom(lines, i) ==
  IF i > Len(lines) THEN <<>>
  ELSE LET line == StripLine(lines[i])
       IN  IF HasArrow(line) /\ MatchesVttTime(line)
           THEN LET j == TextEnd(lines, i + 1)
                    text_lines == CueTextLines(lines, i + 1, j)
                IN  (IF text_lines # <<>>
                     THEN <<TranscriptSegment(_parse_vtt_time(line.from),
                                              _parse_vtt_time(line.to),
                                              JoinSpace(text_lines))>>
                     ELSE <<>>)
                    \o ParseVttFrom(lines, j)
           ELSE ParseVttFrom(lines, i + 1)

\* Transcriber._parse_vtt(content), content given as its lines
_parse_vtt(lines) == ParseVttFrom(lines, 1)

\* Cues used as inputs: the timestamp line is well-formed ("time"), holds
\* '-->' between things that are no times ("bad_arrow"), or is mistyped
\* without '-->' ("bad_plain").
VttStamps == {"time", "bad_arrow", "bad_plain"}
VttSpans == {<<<<None, 0, 1, <<0, 0, 0>>>>, <<None, 0, 2, <<5>>>>>>,
             <<<<1, 1, 1, <<0, 0, 1>>>>, <<1, 1, 2, <<2, 5, 0, 9>>>>>>}
VttTexts == {<<<<"a">>>>, <<<<"<i>", "a", "</i>">>, <<"b">>>>, <<<<" ", "a", " ", "b", " ">>>>}

Cue(stamp, span, text) == [stamp |-> stamp, span |-> span, text |-> text]

\* The timestamp line of a cue.
CueStampLine(cue) ==
  CASE cue.stamp = "time" -> TimeLine(cue.span[1], cue.span[2])
    [] cue.stamp = "bad_arrow" -> TextLine(<<"x", " ", "-->", " ", "y">>)
    [] OTHER -> TextLine(<<"x", " ", "->", " ", "y">>)

\* The lines of the document: the WEBVTT header, and after an empty line
\* each cue: timestamp line, text lines, empty line.
RECURSIVE CueLines(_, _)
CueLines(cues, i) ==
  IF i > Len(cues) THEN <<>>
  ELSE <<CueStampLine(cues[i])>>
       \o [k \in 1..Len(cues[i].text) |-> TextLine(cues[i].text[k])]
       \o <<TextLine(<<>>)>>
       \o CueLines(cues, i + 1)

VttDocument(cues) == <<TextLine(<<"W">>), TextLine(<<>>)>> \o CueLines(cues, 1)

\* One more cue is added to the document that will be parsed.
VttAddCue ==
  /\ call_fn \in {"none", "cues"}
  /\ Len(call_in) < MaxCues
  /\ \E stamp \in VttStamps, span \in VttSpans, text \in VttTexts :
        call_in' = Append(call_in, Cue(stamp, span, text))
  /\ call_fn' = "cues"
  /\ UNCHANGED <<dlVars, trVars, wkVars, obsVars, call_out>>

\* _parse_vtt is applied to the document.
VttParse ==
  /\ call_fn \in {"none", "cues"}
  /\ call_fn' = "_parse_vtt"
  /\ call_out' = _parse_vtt(VttDocument(call_in))
  /\ UNCHANGED <<dlVars, trVars, wkVars, obsVars, call_in>>

(***************************************************************************)
(* URL validation (pure) and the URLs handed to the extraction engine      *)
(*                                                                         *)
(* A URL is given by the parts urllib.parse.urlparse splits it into, as    *)
(* they are written in the string: scheme://netloc path ?query.            *)
(***************************************************************************)
\* constants.ALLOWED_YOUTUBE_HOSTS
ALLOWED_YOUTUBE_HOSTS ==
  {"youtube.com", "www.youtube.com", "youtu.be", "m.youtube.com", "music.youtube.com"}

Url(scheme, netloc, path, query) ==
  [scheme |-> scheme, netloc |-> netloc, path |-> path, query |-> query]

\* URLs used as inputs.
UrlSchemes == {"http", "https", "HTTPS", "ftp", ""}
UrlNetlocs ==
  {"youtube.com", "WWW.YouTube.com", "youtu.be", "music.youtube.com", "youtube.com:443",
   "user@youtube.com", "evil.youtube.com", "example.com", "[bad", ""}
UrlPaths == {"", "/watch", "/x"}
UrlQueries == {"", "v=abc"}
SampleUrls ==
  {Url(sc, n, pa, q) : sc \in UrlSchemes, n \in UrlNetlocs, pa \in UrlPaths, q \in UrlQueries}

\* str.lower() over the schemes and hosts of the samples
LowerName(name) ==
  CASE name = "HTTPS" -> "https"
    [] name = "WWW.YouTube.com" -> "www.youtube.com"
    [] OTHER -> name

\* urlparse raises ValueError on an unbalanced bracket in the netloc.
UrlparseRaises(url) == url.netloc = "[bad"

\* urllib.parse.urlparse(url): the scheme comes back in lower case.
urlparse(url) == [url EXCEPT !.scheme = LowerName(url.scheme)]

\* Variant: any host that holds an allow-listed host passes.
HostAllowed_substring(host) ==
  host \in ALLOWED_YOUTUBE_HOSTS \cup {"youtube.com:443", "user@youtube.com", "evil.youtube.com"}

\* host in ALLOWED_YOUTUBE_HOSTS
HostAllowed(host) == host \in ALLOWED_YOUTUBE_HOSTS

\* validate_youtube_url(url) -> (ok, error)
validate_youtube_url(url) ==
  IF UrlparseRaises(url) THEN <<FALSE, "invalid_url">>
  ELSE LET parsed == urlparse(url)
           host == LowerName(parsed.netloc)
       IN  IF parsed.scheme \notin {"http", "https"} THEN <<FALSE, "invalid_url">>
           ELSE IF ~HostAllowed(host) THEN <<FALSE, "unsupported_url">>
           ELSE IF parsed.path = "" /\ parsed.query = "" THEN <<FALSE, "invalid_url">>
           ELSE <<TRUE, "">>

\* validate_youtube_url is applied to a URL.
UrlValidate ==
  /\ \E url \in SampleUrls :
        /\ call_in' = url
        /\ call_out' = validate_youtube_url(url)
  /\ call_fn' = "validate_youtube_url"
  /\ UNCHANGED <<dlVars, trVars, wkVars, obsVars>>

\* extract_urls_from_text(line) for a line holding one URL: the part of the
\* line one of the four patterns matches (the watch and the youtu.be
\* pattern over the sample URLs), or nothing.
extract_urls_from_text(url) ==
  IF url.scheme \in {"http", "https"} /\ url.netloc \in {"youtube.com", "www.youtube.com"}
       /\ url.path = "/watch" /\ url.query = "v=abc"
  THEN <<url>>
  ELSE IF url.scheme \in {"http", "https"} /\ url.netloc = "youtu.be" /\ url.path # ""
       THEN <<[url EXCEPT !.query = ""]>>
       ELSE <<>>

\* DownloadTab.start_download with one line of text: the extracted URLs,
\* or the line itself when nothing was extracted; DownloadWorker hands them
\* to download_batch, whose download(url) calls the engine's extract_info.
StartDownloadUrl ==
  /\ \E line \in SampleUrls :
        LET urls == IF extract_urls_from_text(line) # <<>>
                    THEN extract_urls_from_text(line)
                    ELSE <<line>>
        IN  /\ call_in' = line
            /\ call_out' = urls[1]
  /\ call_fn' = "download_batch"
  /\ UNCHANGED <<dlVars, trVars, wkVars, obsVars>>

\* PlaylistTab.fetch_playlist: the text of the input field goes to
\* get_playlist_info, which calls the engine's extract_info on it.
FetchPlaylistUrl ==
  /\ \E line \in SampleUrls :
        /\ call_in' = line
        /\ call_out' = line
  /\ call_fn' = "get_playlist_info"
  /\ UNCHANGED <<dlVars, trVars, wkVars, obsVars>>

(***************************************************************************)
(* _passes_filter applied to one video (pure)                              *)
(***************************************************************************)
\* upload_date strings: '' (0), a string strptime rejects (-2), or a day.
UploadDates == {0, -2} \cup (1..MaxDay)

\* A filter whose date range is set and nothing else.
DateRangeFilter(from, to) == [PlaylistFilter EXCEPT !.date_from = from, !.date_to = to]

\* _passes_filter(video, filter_options) is called with a date-range filter.
PassesFilterCall ==
  /\ \E date \in UploadDates, from \in 1..MaxDay, to \in 1..MaxDay :
        LET video == VideoInfo(1, <<"a">>, 60, 50, date)
            filter_options == DateRangeFilter(from, to)
        IN  /\ call_in' = <<video, filter_options>>
            /\ call_out' = _passes_filter(video, filter_options)
  /\ call_fn' = "_passes_filter"
  /\ UNCHANGED <<dlVars, trVars, wkVars, obsVars>>

(***************************************************************************)
(* extract_urls_from_text over a text (pure)                               *)
(*                                                                         *)
(* A text is the sequence of its words.  A word is a link that one of the  *)
(* four patterns matches, given by the pattern and the matched string, or  *)
(* a word that no pattern matches (pattern "none").                        *)
(***************************************************************************)
\* patterns, in the order of the list
patterns == <<"watch", "youtu.be", "playlist", "shorts">>

Word(pattern, match) == [pattern |-> pattern, match |-> match]

\* Words a text is made of: two matched strings per pattern and one word
\* without a link.
TextWords ==
  {Word(patterns[k], id) : k \in 1..Len(patterns), id \in {"x", "y"}} \cup {Word("none", "w")}

\* re.findall(pattern, text): the matches from left to right
re_findall(pattern, text) ==
  LET Matches(word) == word.pattern = pattern
  IN  SelectSeq(text, Matches)

\* the loop `for pattern in patterns: urls.extend(re.findall(pattern, text))`
RECURSIVE extend_matches(_, _)
extend_matches(k, text) ==
  IF k > Len(patterns) THEN <<>>
  ELSE re_findall(patterns[k], text) \o extend_matches(k + 1, text)

\* list(dict.fromkeys(urls)): each key once, at its first position
RECURSIVE dict_fromkeys(_)
dict_fromkeys(urls) ==
  IF urls = <<>> THEN <<>>
  ELSE LET rest == dict_fromkeys(SubSeq(urls, 1, Len(urls) - 1))
           last == urls[Len(urls)]
       IN  IF \E k \in 1..Len(rest) : rest[k] = last THEN rest ELSE Append(rest, last)

\* extract_urls_from_text(text) for a text of words
extract_urls_from_words(text) == dict_fromkeys(extend_matches(1, text))

\* One more word is added to the text.
TextAddWord ==
  /\ call_fn \in {"none", "text"}
  /\ Len(call_in) < MaxWords
  /\ \E word \in TextWords : call_in' = Append(call_in, word)
  /\ call_fn' = "text"
  /\ UNCHANGED <<dlVars, trVars, wkVars, obsVars, call_out>>

\* extract_urls_from_text is applied to the text.
ExtractUrls ==
  /\ call_fn \in {"none", "text"}
  /\ call_fn' = "extract_urls_from_text"
  /\ call_out' = extract_urls_from_words(call_in)
  /\ UNCHANGED <<dlVars, trVars, wkVars, obsVars, call_in>>

(***************************************************************************)
(* sanitize_filename (pure)                                                *)
(*                                                                         *)
(* A file name is the sequence of its characters.  os.path is posixpath or *)
(* ntpath, depending on the platform the program runs on.                  *)
(***************************************************************************)
\* constants.INVALID_FILENAME_CHARS
INVALID_FILENAME_CHARS == {"<", ">", ":", "\"", "/", "\\", "|", "?", "*"}

\* Characters the names given to sanitize_filename are made of.
NameChars == {"a", ".", "_", " ", "/", "\\", ":", "<"}

Platforms == {"posix", "nt"}

\* os.sep and os.altsep of the platform
PathSeps(platform) == IF platform = "nt" THEN {"/", "\\"} ELSE {"/"}

\* The positions of p from position from on that hold a separator.
SepPositions(platform, p, from) ==
  {k \in from..Len(p) : p[k] \in PathSeps(platform)}

Minimum(S) == CHOOSE x \in S : \A y \in S : x <= y

Maximum(S) == CHOOSE x \in S : \A y \in S : x >= y

\* os.path.splitdrive(p)[1]: p without its drive.  posixpath has no
\* drives; ntpath takes a UNC prefix //host/share or a prefix "x:".
splitdrive_tail(platform, p) ==
  IF platform = "posix" \/ Len(p) < 2 THEN p
  ELSE IF p[1] \in PathSeps(platform) /\ p[2] \in PathSeps(platform)
       THEN LET after_host == SepPositions(platform, p, 3)
            IN  IF after_host = {} THEN <<>>
                ELSE LET after_share == SepPositions(platform, p, Minimum(after_host) + 1)
                     IN  IF after_share = {} THEN <<>>
                         ELSE SubSeq(p, Minimum(after_share), Len(p))
       ELSE IF p[2] = ":" THEN SubSeq(p, 3, Len(p))
            ELSE p

\* os.path.basename(p): what follows the last separator
os_path_basename(platform, p) ==
  LET tail == splitdrive_tail(platform, p)
      seps == SepPositions(platform, tail, 1)
  IN  IF seps = {} THEN tail ELSE SubSeq(tail, Maximum(seps) + 1, Len(tail))

\* Variant of replace_invalid_chars that leaves a backslash in place.
replace_invalid_chars_keepBackslash(filename) ==
  [k \in 1..Len(filename) |->
     IF filename[k] \in INVALID_FILENAME_CHARS \ {"\\"} THEN "_" ELSE filename[k]]

\* for char in INVALID_FILENAME_CHARS: filename = filename.replace(char, '_')
replace_invalid_chars(filename) ==
  [k \in 1..Len(filename) |->
     IF filename[k] \in INVALID_FILENAME_CHARS THEN "_" ELSE filename[k]]

\* filename.replace('__', '_'): pairs are replaced from left to right
RECURSIVE replace_double_underscore(_)
replace_double_underscore(filename) ==
  IF Len(filename) < 2 THEN filename
  ELSE IF filename[1] = "_" /\ filename[2] = "_"
       THEN <<"_">> \o replace_double_underscore(SubSeq(filename, 3, Len(filename)))
       ELSE <<filename[1]>> \o replace_double_underscore(Tail(filename))

HasDoubleUnderscore(filename) ==
  \E k \in 1..(Len(filename) - 1) : filename[k] = "_" /\ filename[k + 1] = "_"

\* while '__' in filename: filename = filename.replace('__', '_')
RECURSIVE collapse_underscores(_)
collapse_underscores(filename) ==
  IF HasDoubleUnderscore(filename)
  THEN collapse_underscores(replace_double_underscore(filename))
  ELSE filename

\* filename.strip(chars)
RECURSIVE strip_chars(_, _)
strip_chars(filename, chars) ==
  IF filename = <<>> THEN <<>>
  ELSE IF filename[1] \in chars THEN strip_chars(Tail(filename), chars)
  ELSE IF filename[Len(filename)] \in chars
       THEN strip_chars(SubSeq(filename, 1, Len(filename) - 1), chars)
       ELSE filename

DefaultName == <<"d", "o", "w", "n", "l", "o", "a", "d">>

\* sanitize_filename(filename), run on the given platform
sanitize_filename(platform, filename) ==
  LET base == os_path_basename(platform, filename)
      replaced == replace_invalid_chars(base)
      collapsed == collapse_underscores(replaced)
      stripped == strip_chars(collapsed, {"_", " "})
  IN  IF stripped = <<>> THEN DefaultName ELSE stripped

\* One more character is added to the name.
NameAddChar ==
  /\ call_fn \in {"none", "name"}
  /\ Len(call_in) < MaxNameLen
  /\ \E c \in NameChars : call_in' = Append(call_in, c)
  /\ call_fn' = "name"
  /\ UNCHANGED <<dlVars, trVars, wkVars, obsVars, call_out>>

\* sanitize_filename is applied to the name.
SanitizeCall ==
  /\ call_fn \in {"none", "name"}
  /\ call_fn' = "sanitize_filename"
  /\ \E platform \in Platforms :
        call_out' = [platform |-> platform, name |-> sanitize_filename(platform, call_in)]
  /\ UNCHANGED <<dlVars, trVars, wkVars, obsVars, call_in>>

(***************************************************************************)
(* get_youtube_subtitles: choice of the caption track (pure)               *)
(*                                                                         *)
(* info['subtitles'] and info['automatic_captions'] map a language to a    *)
(* list of formats; per language the model keeps whether the key is        *)
(* absent, its list is empty, or its list holds formats.                   *)
(***************************************************************************)
CaptionLangs == {"ja", "en", "fr"}

TrackLists == {"absent", "empty", "formats"}

NoTrack == [kind |-> "None", lang |-> "None"]

\* [lang, 'ja', 'en']
try_langs(lang) == <<lang, "ja", "en">>

\* `for try_lang in [...]: if try_lang in captions: ...; break`: the first
\* position of the list whose language is a key, 0 when there is none.
RECURSIVE first_key(_, _, _)
first_key(captions, langs, k) ==
  IF k > Len(langs) THEN 0
  ELSE IF captions[langs[k]] # "absent" THEN k
       ELSE first_key(captions, langs, k + 1)

\* The track get_youtube_subtitles takes its caption_data from: the
\* human-authored loop, then, `if not caption_data`, the automatic loop;
\* `if not caption_data: return None`.
select_caption_data(lang, subtitles, automatic_captions) ==
  LET langs == try_langs(lang)
      m == first_key(subtitles, langs, 1)
      a == first_key(automatic_captions, langs, 1)
  IN  IF m # 0 /\ subtitles[langs[m]] = "formats"
      THEN [kind |-> "subtitles", lang |-> langs[m]]
      ELSE IF a # 0 /\ automatic_captions[langs[a]] = "formats"
           THEN [kind |-> "automatic_captions", lang |-> langs[a]]
           ELSE NoTrack

\* get_youtube_subtitles(url, lang) on a video with the given caption maps.
CaptionSelect ==
  /\ \E lang \in CaptionLangs, subtitles \in [CaptionLangs -> TrackLists],
        automatic_captions \in [CaptionLangs -> TrackLists] :
        /\ call_in' = [lang |-> lang, subtitles |-> subtitles,
                       automatic_captions |-> automatic_captions]
        /\ call_out' = select_caption_data(lang, subtitles, automatic_captions)
  /\ call_fn' = "get_youtube_subtitles"
  /\ UNCHANGED <<dlVars, trVars, wkVars, obsVars>>

(***************************************************************************)
(* get_youtube_subtitles: the asset of the chosen track (pure)             *)
(*                                                                         *)
(* caption_data is the list of the track's assets as the provider lists    *)
(* them; an asset is its 'ext' and whether its 'url' is a non-empty string.*)
(***************************************************************************)
AssetExts == {"vtt", "srt", "json3", "ttml"}

SupportedExts == {"vtt", "srt", "json3"}

Assets == [ext : AssetExts, has_url : BOOLEAN]

NoAsset == [ext |-> "None", has_url |-> FALSE]

\* `for fmt in caption_data: if fmt.get('ext') in [...]: ...; break`: the
\* position of the first asset with a supported ext, 0 when there is none.
RECURSIVE first_supported(_, _)
first_supported(caption_data, k) ==
  IF k > Len(caption_data) THEN 0
  ELSE IF caption_data[k].ext \in SupportedExts THEN k
       ELSE first_supported(caption_data, k + 1)

\* (subtitle_url, subtitle_ext) after the loop; `if not subtitle_url: return None`
select_subtitle_url(caption_data) ==
  LET k == first_supported(caption_data, 1)
  IN  IF k # 0 /\ caption_data[k].has_url THEN caption_data[k] ELSE NoAsset

\* The provider lists one more asset of the track.
AssetAdd ==
  /\ call_fn \in {"none", "caption_data"}
  /\ Len(call_in) < MaxAssets
  /\ \E fmt \in Assets : call_in' = Append(call_in, fmt)
  /\ call_fn' = "caption_data"
  /\ UNCHANGED <<dlVars, trVars, wkVars, obsVars, call_out>>

\* get_youtube_subtitles picks the asset to download from caption_data.
SelectSubtitleUrl ==
  /\ call_fn = "caption_data"
  /\ call_fn' = "select_subtitle_url"
  /\ call_out' = select_subtitle_url(call_in)
  /\ UNCHANGED <<dlVars, trVars, wkVars, obsVars, call_in>>

(***************************************************************************)
(* _parse_json3 (pure)                                                     *)
(*                                                                         *)
(* A document is what json.loads makes of the content: no JSON at all, a   *)
(* value that is not an object, or an object whose 'events' is absent,     *)
(* null or a list.  An event is an object, null, a number or a string; an  *)
(* object event has 'segs' (absent, null, a list of objects whose joined   *)
(* text is non-blank or blank, or a list holding a non-object) and the     *)
(* fields tStartMs and dDurationMs (absent, null, a string or a number of  *)
(* milliseconds).  Times stay in milliseconds: the division by 1000 keeps  *)
(* their order.                                                            *)
(***************************************************************************)
Json3Tops == {"not_json", "null", "array", "no_events", "events_null", "events"}

Json3Segs == {"absent", "null", "text", "blank", "bad"}

\* a field of an event: absent, null, a string, or a number of milliseconds
Json3Field(is, ms) == [is |-> is, ms |-> ms]

Json3Absent == Json3Field("absent", 0)

Json3Starts ==
  {Json3Absent, Json3Field("null", 0), Json3Field("str", 0), Json3Field("number", 1000)}

Json3Durations ==
  {Json3Absent, Json3Field("null", 0), Json3Field("str", 0),
   Json3Field("number", -500), Json3Field("number", 500)}

Json3Events ==
  [kind : {"object"}, segs : Json3Segs, tStartMs : Json3Starts, dDurationMs : Json3Durations]
    \cup {[kind |-> k, segs |-> "absent", tStartMs |-> Json3Absent, dDurationMs |-> Json3Absent] :
             k \in {"null", "number", "string"}}

\* how a call ended: the exception that left it ("None" for a return) and
\* the list it returned
Json3Outcome(exc, segments) == [exc |-> exc, segments |-> segments]

\* event.get(key, 0) as a number of milliseconds
GetMs(field) == IF field.is = "absent" THEN 0 ELSE field.ms

\* the body of `for event in events` for one event: the exception it raises
\* ("None" when it raises none) and the segments it appends
Json3Event(event) ==
  IF event.kind \in {"null", "number"}
  THEN Json3Outcome("TypeError", <<>>)           \* 'segs' in event
  ELSE IF event.kind = "string" \/ event.segs = "absent"
  THEN Json3Outcome("None", <<>>)
  ELSE IF event.tStartMs.is \in {"null", "str"} \/ event.dDurationMs.is \in {"null", "str"}
  THEN Json3Outcome("TypeError", <<>>)           \* event.get(...) / 1000
  ELSE IF event.segs = "null"
  THEN Json3Outcome("TypeError", <<>>)           \* for seg in None
  ELSE IF event.segs = "bad"
  THEN Json3Outcome("AttributeError", <<>>)      \* seg.get
  ELSE IF event.segs = "blank"
  THEN Json3Outcome("None", <<>>)                \* if text:
  ELSE LET start == GetMs(event.tStartMs)
           duration == GetMs(event.dDurationMs)
       IN  Json3Outcome("None",
              <<[start |-> start, end |-> start + duration, text |-> "text"]>>)

\* the loop over the events from the i-th on; an exception ends it
RECURSIVE ParseJson3Events(_, _)
ParseJson3Events(events, i) ==
  IF i > Len(events) THEN Json3Outcome("None", <<>>)
  ELSE LET one == Json3Event(events[i])
       IN  IF one.exc # "None" THEN one
           ELSE LET rest == ParseJson3Events(events, i + 1)
                IN  IF rest.exc # "None" THEN rest
                    ELSE Json3Outcome("None", one.segments \o rest.segments)

\* Transcriber._parse_json3(content): only json.JSONDecodeError is caught
_parse_json3(doc) ==
  IF doc.top = "not_json" THEN Json3Outcome("None", <<>>)
  ELSE IF doc.top \in {"null", "array"} THEN Json3Outcome("AttributeError", <<>>)  \* data.get
  ELSE IF doc.top = "no_events" THEN Json3Outcome("None", <<>>)
  ELSE IF doc.top = "events_null" THEN Json3Outcome("TypeError", <<>>)  \* for event in None
  ELSE ParseJson3Events(doc.events, 1)

\* The content of a structured-event document is chosen.
Json3Document ==
  /\ call_fn = "none"
  /\ \E top \in Json3Tops : call_in' = [top |-> top, events |-> <<>>]
  /\ call_fn' = "json3"
  /\ UNCHANGED <<dlVars, trVars, wkVars, obsVars, call_out>>

\* One more event is added to the document's 'events' list.
Json3AddEvent ==
  /\ call_fn = "json3"
  /\ call_in.top = "events"
  /\ Len(call_in.events) < MaxEvents
  /\ \E event \in Json3Events :
        call_in' = [call_in EXCEPT !.events = Append(@, event)]
  /\ UNCHANGED <<dlVars, trVars, wkVars, obsVars, call_fn, call_out>>

\* _parse_json3 is applied to the document.
ParseJson3 ==
  /\ call_fn = "json3"
  /\ call_fn' = "_parse_json3"
  /\ call_out' = _parse_json3(call_in)
  /\ UNCHANGED <<dlVars, trVars, wkVars, obsVars, call_in>>

(***************************************************************************)
(* _passes_filter with numeric ranges (pure)                               *)
(***************************************************************************)
\* a bound of a range: unset, or a count from 0 on
RangeBounds == {None} \cup (0..MaxCount)

\* A filter whose view and duration ranges are given and nothing else.
RangeFilter(min_views, max_views, min_duration, max_duration) ==
  [PlaylistFilter EXCEPT !.min_views = min_views, !.max_views = max_views,
                         !.min_duration = min_duration, !.max_duration = max_duration]

\* _passes_filter(video, filter_options) is called with a range filter.
PassesRangeCall ==
  /\ call_fn = "none"
  /\ \E views \in 0..MaxCount, duration \in 0..MaxCount,
        min_views \in RangeBounds, max_views \in RangeBounds,
        min_duration \in RangeBounds, max_duration \in RangeBounds :
        LET video == VideoInfo(1, <<"a">>, duration, views, 1)
            filter_options == RangeFilter(min_views, max_views, min_duration, max_duration)
        IN  /\ call_in' = <<video, filter_options>>
            /\ call_out' = _passes_filter(video, filter_options)
  /\ call_fn' = "_passes_filter"
  /\ UNCHANGED <<dlVars, trVars, wkVars, obsVars>>

(***************************************************************************)
(* _progress_hook: the percentage of a 'downloading' event (pure)          *)
(*                                                                         *)
(* A field of the engine's progress record is absent, null or a byte       *)
(* count.  The byte counts are powers of two, for which the float          *)
(* expression downloaded / total * 100 is exact.                           *)
(***************************************************************************)
ByteCounts == {0, 1, 2, 4}

HookField(is, n) == [is |-> is, n |-> n]

HookTotals == {HookField("absent", 0), HookField("null", 0)} \cup {HookField("number", n) : n \in ByteCounts}

\* how the hook ended: the exception that left it ("None" for a return) and
\* info['percent']
HookOutcome(exc, percent) == [exc |-> exc, percent |-> percent]

\* d.get('total_bytes') or d.get('total_bytes_estimate', 0)
hook_total(total_bytes, total_bytes_estimate) ==
  IF total_bytes.is = "number" /\ total_bytes.n # 0 THEN total_bytes
  ELSE IF total_bytes_estimate.is = "absent" THEN HookField("number", 0)
       ELSE total_bytes_estimate

\* (downloaded / total * 100) if total > 0 else 0; `None > 0` is a TypeError
hook_percent(downloaded, total_bytes, total_bytes_estimate) ==
  LET total == hook_total(total_bytes, total_bytes_estimate)
  IN  IF total.is = "null" THEN HookOutcome("TypeError", 0)
      ELSE IF total.n > 0 THEN HookOutcome("None", (downloaded * 100) \div total.n)
           ELSE HookOutcome("None", 0)

\* The engine calls _progress_hook with a 'downloading' record; the flag is
\* clear and a progress callback is set.
ProgressPercentCall ==
  /\ call_fn = "none"
  /\ \E downloaded \in ByteCounts, total_bytes \in HookTotals, total_bytes_estimate \in HookTotals :
        /\ call_in' = [downloaded_bytes |-> downloaded, total_bytes |-> total_bytes,
                       total_bytes_estimate |-> total_bytes_estimate]
        /\ call_out' = hook_percent(downloaded, total_bytes, total_bytes_estimate)
  /\ call_fn' = "_progress_hook"
  /\ UNCHANGED <<dlVars, trVars, wkVars, obsVars>>

(***************************************************************************)
(* SpacesDownloadWorker (gui/workers/spaces_worker.py)                     *)
(*                                                                         *)
(* One worker object runs once.  Its own _cancel_flag is set by cancel()   *)
(* from the window's thread and is never cleared.  A URL is started when   *)
(* it has passed the per-item check of the flag.                           *)
(***************************************************************************)
SpacesFrame == <<dlVars, trVars, wkVars, pureVars, c_both>>

Signal(kind, n) == [kind |-> kind, n |-> n]

NotCancelled == [pc |-> "None", started |-> None]

SpacesLoopPcs == {"check", "extract", "download"}

\* results.append(...) ends the body of the loop for this URL.
SpacesAppend(entry) ==
  /\ sp_results' = Append(sp_results, entry)
  /\ sp_idx' = sp_idx + 1
  /\ sp_pc' = "check"

\* cancel(), from the cancel button of the tab.
SpacesCancel ==
  /\ sp_pc # "idle"
  /\ sp_cancel_flag' = TRUE
  /\ sp_cancel' = IF sp_cancel = NotCancelled
                  THEN [pc |-> sp_pc, started |-> sp_started] ELSE sp_cancel
  /\ UNCHANGED <<SpacesFrame, sp_pc, sp_total, sp_idx, sp_results, sp_events, sp_hooks, sp_started>>

\* start(): run() begins; results = [].
SpacesStart ==
  /\ sp_pc = "idle"
  /\ sp_events = <<>>
  /\ sp_total' \in 0..NSpaces
  /\ sp_pc' = "setup"
  /\ UNCHANGED <<SpacesFrame, sp_idx, sp_cancel_flag, sp_results, sp_events, sp_hooks, sp_started,
                 sp_cancel>>

\* The output directory exists or is made and the FFmpeg path is found.
SpacesSetup ==
  /\ sp_pc = "setup"
  /\ sp_pc' = "check"
  /\ UNCHANGED <<SpacesFrame, sp_total, sp_idx, sp_cancel_flag, sp_results, sp_events, sp_hooks,
                 sp_started, sp_cancel>>

\* os.makedirs or get_ffmpeg_path raised: the outer `except Exception`
\* emits error(str(e)).
SpacesSetupRaise ==
  /\ sp_pc = "setup"
  /\ sp_events' = Append(sp_events, Signal("error", 0))
  /\ sp_pc' = "done"
  /\ UNCHANGED <<SpacesFrame, sp_total, sp_idx, sp_cancel_flag, sp_results, sp_hooks, sp_started,
                 sp_cancel>>

\* Variant of SpacesCheck that does not test the flag.
SpacesCheck_noBreak ==
  /\ sp_pc = "check"
  /\ IF sp_idx >= sp_total
     THEN /\ sp_events' = Append(sp_events, Signal("finished", Len(sp_results)))
          /\ sp_pc' = "done"
          /\ UNCHANGED sp_started
     ELSE /\ sp_events' = sp_events \o <<Signal("item_progress", sp_idx + 1), Signal("progress", sp_idx + 1)>>
          /\ sp_started' = sp_started + 1
          /\ sp_pc' = "extract"
  /\ UNCHANGED <<SpacesFrame, sp_total, sp_idx, sp_cancel_flag, sp_results, sp_hooks, sp_cancel>>

\* Top of the loop: the end of the list or `if self._cancel_flag: break`
\* leads to finished.emit(results); otherwise item_progress and the
\* 'extracting' progress event are emitted for the URL.
SpacesCheck ==
  /\ sp_pc = "check"
  /\ IF sp_idx >= sp_total \/ sp_cancel_flag
     THEN /\ sp_events' = Append(sp_events, Signal("finished", Len(sp_results)))
          /\ sp_pc' = "done"
          /\ UNCHANGED sp_started
     ELSE /\ sp_events' = sp_events \o <<Signal("item_progress", sp_idx + 1), Signal("progress", sp_idx + 1)>>
          /\ sp_started' = sp_started + 1
          /\ sp_pc' = "extract"
  /\ UNCHANGED <<SpacesFrame, sp_total, sp_idx, sp_cancel_flag, sp_results, sp_hooks, sp_cancel>>

\* extract_info(url, download=False) returned nothing, or it raised: one
\* 'ERROR: ...' entry.
SpacesExtractFail ==
  /\ sp_pc = "extract"
  /\ SpacesAppend("ERROR")
  /\ UNCHANGED <<SpacesFrame, sp_total, sp_cancel_flag, sp_events, sp_hooks, sp_started, sp_cancel>>

\* extract_info returned the information: the 'info_ready' and 'starting'
\* progress events, then ydl.download([url]) begins.
SpacesExtractOk ==
  /\ sp_pc = "extract"
  /\ sp_events' = sp_events \o <<Signal("progress", sp_idx + 1), Signal("progress", sp_idx + 1)>>
  /\ sp_hooks' = 0
  /\ sp_pc' = "download"
  /\ UNCHANGED <<SpacesFrame, sp_total, sp_idx, sp_cancel_flag, sp_results, sp_started, sp_cancel>>

\* progress_hook called by the engine while the flag is clear.
SpacesHook ==
  /\ sp_pc = "download"
  /\ sp_hooks < MaxHooks
  /\ ~sp_cancel_flag
  /\ sp_events' = Append(sp_events, Signal("progress", sp_idx + 1))
  /\ sp_hooks' = sp_hooks + 1
  /\ UNCHANGED <<SpacesFrame, sp_pc, sp_total, sp_idx, sp_cancel_flag, sp_results, sp_started,
                 sp_cancel>>

\* progress_hook called while the flag is set: it raises, the exception
\* leaves ydl.download and the inner `except` appends an 'ERROR: ...' entry.
SpacesHookCancelled ==
  /\ sp_pc = "download"
  /\ sp_hooks < MaxHooks
  /\ sp_cancel_flag
  /\ SpacesAppend("ERROR")
  /\ UNCHANGED <<SpacesFrame, sp_total, sp_cancel_flag, sp_events, sp_hooks, sp_started, sp_cancel>>

\* ydl.download([url]) returned: results.append(filename).
SpacesDownloadOk ==
  /\ sp_pc = "download"
  /\ SpacesAppend("file")
  /\ UNCHANGED <<SpacesFrame, sp_total, sp_cancel_flag, sp_events, sp_hooks, sp_started, sp_cancel>>

\* ydl.download([url]) raised DownloadError or another exception.
SpacesDownloadFail ==
  /\ sp_pc = "download"
  /\ SpacesAppend("ERROR")
  /\ UNCHANGED <<SpacesFrame, sp_total, sp_cancel_flag, sp_events, sp_hooks, sp_started, sp_cancel>>

(***************************************************************************)
(* PlaylistTab: the filter of the fetch and apply_filter (pure)            *)
(*                                                                         *)
(* The settings are the widgets of the filter panel.  A month m of the     *)
(* date combo boxes has the days 2m - 1 and 2m.  _passes_filter compares   *)
(* datetimes at midnight, given by their day; apply_filter's date_to is at *)
(* 23:59:59, so its datetimes are in seconds.                              *)
(***************************************************************************)
Months == {1, 2}

FirstDay(month) == 2 * month - 1

LastDay(month) == 2 * month

DaySeconds == 86400

RangePairs == {<<0, 0>>, <<0, 1>>, <<1, 1>>}

\* the states of the filter panel
FilterSettings ==
  [use_date_filter : {FALSE}, month_from : {1}, month_to : {1},
   use_view_filter : BOOLEAN, views : RangePairs,
   use_duration_filter : BOOLEAN, minutes : RangePairs,
   title_contains : {<<>>, <<"a">>}, title_excludes : {<<>>, <<"b">>}]
  \cup
  [use_date_filter : {TRUE}, month_from : Months, month_to : Months,
   use_view_filter : BOOLEAN, views : RangePairs,
   use_duration_filter : BOOLEAN, minutes : RangePairs,
   title_contains : {<<>>, <<"a">>}, title_excludes : {<<>>, <<"b">>}]

\* the videos of a fetched list: no upload date or one of two days, no or
\* one view, a length of no or one minute
ListedVideos ==
  { VideoInfo(1, <<"A", "b">>, duration, views, date) :
      duration \in {0, 60}, views \in {0, 1}, date \in {0, 2, 3} }

\* PlaylistTab.fetch_playlist: the PlaylistFilter built from the settings
fetch_filter(w) ==
  [PlaylistFilter EXCEPT
     !.date_from = IF w.use_date_filter THEN FirstDay(w.month_from) ELSE None,
     !.date_to = IF w.use_date_filter THEN LastDay(w.month_to) ELSE None,
     !.min_views = IF w.use_view_filter THEN w.views[1] ELSE None,
     !.max_views = IF w.use_view_filter THEN w.views[2] ELSE None,
     !.min_duration = IF w.use_duration_filter THEN w.minutes[1] * 60 ELSE None,
     !.max_duration = IF w.use_duration_filter THEN w.minutes[2] * 60 ELSE None,
     !.title_contains = w.title_contains,
     !.title_excludes = w.title_excludes]

\* PlaylistTab.apply_filter: whether the comprehensions keep video v
apply_filter_keeps(v, w) ==
  LET upload == upload_datetime(v)
      date_from == FirstDay(w.month_from) * DaySeconds
      date_to == LastDay(w.month_to) * DaySeconds + (DaySeconds - 1)
  IN  /\ w.use_date_filter =>
            /\ upload # None
            /\ date_from <= upload * DaySeconds
            /\ upload * DaySeconds <= date_to
      /\ w.use_view_filter => (w.views[1] <= v.view_count /\ v.view_count <= w.views[2])
      /\ w.use_duration_filter =>
            (w.minutes[1] * 60 <= v.duration /\ v.duration <= w.minutes[2] * 60)
      /\ TruthyStr(w.title_contains) => Contains(Lower(v.title), Lower(w.title_contains))
      /\ TruthyStr(w.title_excludes) => ~Contains(Lower(v.title), Lower(w.title_excludes))

\* PlaylistTab.apply_filter on the list all_videos
apply_filter(all_videos, w) ==
  LET Keeps(v) == apply_filter_keeps(v, w)
  IN  SelectSeq(all_videos, Keeps)

\* the list a fetch with the filter of the same settings builds from the
\* same videos
fetch_filtered(all_videos, w) ==
  LET Passes(v) == _passes_filter(v, fetch_filter(w))
  IN  SelectSeq(all_videos, Passes)

\* The filter panel is set.
FilterPanelSet ==
  /\ call_fn = "none"
  /\ \E w \in FilterSettings : call_in' = [settings |-> w, all_videos |-> <<>>]
  /\ call_fn' = "panel"
  /\ UNCHANGED <<dlVars, trVars, wkVars, obsVars, call_out>>

\* One more video is in the list.
ListAddVideo ==
  /\ call_fn = "panel"
  /\ Len(call_in.all_videos) < MaxVideos
  /\ \E v \in ListedVideos :
        call_in' = [call_in EXCEPT !.all_videos = Append(@, v)]
  /\ UNCHANGED <<dlVars, trVars, wkVars, obsVars, call_fn, call_out>>

\* The list is filtered both ways: by the fetch and by apply_filter.
FilterBothWays ==
  /\ call_fn = "panel"
  /\ call_in.all_videos # <<>>
  /\ call_fn' = "apply_filter"
  /\ call_out' = [fetched |-> fetch_filtered(call_in.all_videos, call_in.settings),
                  applied |-> apply_filter(call_in.all_videos, call_in.settings)]
  /\ UNCHANGED <<dlVars, trVars, wkVars, obsVars, call_in>>

(***************************************************************************)
(* Specifications                                                          *)
(***************************************************************************)
\* YouTubeDownloader.__init__ and idle workers.
InitDownloader ==
  /\ dl_cancel_flag = FALSE
  /\ n_ops = 0
  /\ b_pc = "idle"
  /\ b_total = 0
  /\ b_anti_ban = FALSE
  /\ b_i = 0
  /\ downloaded_files = <<>>
  /\ b_events = <<>>
  /\ b_dl_calls = [j \in 1..NUrls |-> 0]
  /\ b_hooks = 0
  /\ b_outcomes = <<>>
  /\ b_broke = FALSE
  /\ b_cancel_at = None
  /\ b_term = <<>>
  /\ pl_pc = "idle"
  /\ pl_filter = NoFilter
  /\ pl_entries = <<>>
  /\ pl_i = 0
  /\ videos = <<>>
  /\ pl_progress = <<>>
  /\ pl_resolved = <<>>
  /\ pl_broke = FALSE
  /\ pl_seen_at = None
  /\ pl_cancel_during = FALSE
  /\ pl_term = <<>>

\* Transcriber.__init__ and idle threads.
InitTranscriber ==
  /\ whisper_model = NoModel
  /\ faster_whisper_model = NoModel
  /\ kotoba_pipeline = NoModel
  /\ model_name = "base"
  /\ engine = "openai-whisper"
  /\ use_kotoba = FALSE
  /\ model_load_lock = 0
  /\ t_pc = [t \in Threads |-> "idle"]
  /\ t_arg = [t \in Threads |-> "base"]
  /\ t_branch = [t \in Threads |-> "none"]
  /\ n_calls = 0
  /\ t_overlap = [t \in Threads |-> FALSE]
  /\ t_ret = [t \in Threads |-> NoCall]
  /\ load_calls = 0
  /\ last_call = NoCall
  /\ t_op = [t \in Threads |-> "load"]
  /\ tr_cancel_flag = FALSE
  /\ p_prefer = FALSE
  /\ p_captions = NotFetched
  /\ p_stages = <<>>
  /\ p_tempdir = "none"
  /\ p_result = NoResult
  /\ p_engine = "none"
  /\ p_cancelled_in = "none"
  /\ stt_calls = 0

\* TranscribeWorker before start().
InitWorker ==
  /\ w_pc = "idle"
  /\ w_total = 0
  /\ w_is_file = FALSE
  /\ w_outcomes = <<>>
  /\ results = <<>>
  /\ w_signals = <<>>
  /\ w_callback = FALSE

\* No function applied yet.
InitPure ==
  /\ call_fn = "none"
  /\ call_in = <<>>
  /\ call_out = <<>>

\* cancel() not called yet.
InitObs == c_both = NoCancel

\* SpacesDownloadWorker.__init__: the flag is clear, nothing has run.
InitSpaces ==
  /\ sp_pc = "idle"
  /\ sp_total = 0
  /\ sp_idx = 0
  /\ sp_cancel_flag = FALSE
  /\ sp_results = <<>>
  /\ sp_events = <<>>
  /\ sp_hooks = 0
  /\ sp_started = 0
  /\ sp_cancel = NotCancelled

InitExt == InitWorker /\ InitPure /\ InitObs /\ InitSpaces

Init == InitDownloader /\ InitTranscriber /\ InitExt

\* One YouTubeDownloader instance driven by the download tab.
NextBatch ==
  \/ Cancel
  \/ StartBatch
  \/ BatchCheck
  \/ BatchDelay
  \/ BatchItemCallback
  \/ DownloadEnter
  \/ ProgressHook
  \/ ProgressHookCancelled
  \/ DownloadSucceed
  \/ DownloadNoInfo
  \/ DownloadFail
  \/ DownloadWorkerFinished
  \/ OnDownloadFinished

SpecBatch == Init /\ [][NextBatch]_vars

\* One YouTubeDownloader instance driven by the playlist tab.
NextFetch ==
  \/ Cancel
  \/ StartFetch
  \/ FetchExtractEntries
  \/ FetchExtractOther
  \/ FetchRaise
  \/ FetchSingle
  \/ FetchCheck
  \/ FetchResolve
  \/ FetchResolveFail
  \/ PlaylistWorkerFinished
  \/ OnPlaylistFetched
  \/ OnPlaylistFetchedMain

SpecFetch == Init /\ [][NextFetch]_vars

\* One Transcriber instance whose model is loaded by two threads.
NextLoad ==
  \/ SetEngine
  \/ SetUseKotoba
  \/ \E t \in Threads : LoadCall(t)
  \/ \E t \in Threads : LoadAcquire(t)
  \/ \E t \in Threads : LoadSelectKotoba(t)
  \/ \E t \in Threads : LoadSelectEngine(t)
  \/ \E t \in Threads : LoadModel(t)
  \/ \E t \in Threads : LoadModelFail(t)
  \/ \E t \in Threads : LoadRelease(t)

SpecLoad == Init /\ [][NextLoad]_vars

\* One Transcriber instance used by a transcription worker, while the
\* engine selection may be changed and cancel() may be called.
NextPipe ==
  \/ TrCancel
  \/ SetEngine
  \/ SetUseKotoba
  \/ \E t \in PipeThreads : YtCall(t)
  \/ \E t \in PipeThreads : YtCaptions(t)
  \/ \E t \in PipeThreads : YtCaptionsFound(t)
  \/ \E t \in PipeThreads : YtCaptionsNone(t)
  \/ \E t \in PipeThreads : YtDownloadStart(t)
  \/ \E t \in PipeThreads : YtDownloadOk(t)
  \/ \E t \in PipeThreads : YtDownloadFail(t)
  \/ \E t \in PipeThreads : AudioCall(t)
  \/ \E t \in PipeThreads : AudioEnter(t)
  \/ \E t \in PipeThreads : LoadAcquire(t)
  \/ \E t \in PipeThreads : LoadSelectKotoba(t)
  \/ \E t \in PipeThreads : LoadSelectEngine(t)
  \/ \E t \in PipeThreads : LoadModel(t)
  \/ \E t \in PipeThreads : LoadModelFail(t)
  \/ \E t \in PipeThreads : LoadRelease(t)
  \/ \E t \in PipeThreads : AudioReport(t)
  \/ \E t \in PipeThreads : AudioDispatchKotoba(t)
  \/ \E t \in PipeThreads : AudioDispatchEngine(t)
  \/ \E t \in PipeThreads : SttOk(t)
  \/ \E t \in PipeThreads : SttFail(t)
  \/ \E t \in PipeThreads : SttNoModel(t)

SpecPipe == Init /\ [][NextPipe]_vars

\* One TranscribeWorker run after another.
NextWorker ==
  \/ TwStart
  \/ TwNextItem
  \/ TwItemOk
  \/ TwItemFail
  \/ TwFinish
  \/ TwIdle

SpecWorker == Init /\ [][NextWorker]_vars

\* A transcript is exported as a subtitle document and read back.
NextSrt ==
  \/ SrtAddSegment
  \/ SrtRoundTrip

SpecSrt == Init /\ [][NextSrt]_vars

\* A cue-block document is put together and parsed.
NextVtt ==
  \/ VttAddCue
  \/ VttParse

SpecVtt == Init /\ [][NextVtt]_vars

\* URLs are validated, and URLs typed into the tabs reach the engine.
NextUrl ==
  \/ UrlValidate
  \/ StartDownloadUrl
  \/ FetchPlaylistUrl

SpecUrl == Init /\ [][NextUrl]_vars

\* Videos are tested against date-range filters.
NextFilter ==
  \/ PassesFilterCall

SpecFilter == Init /\ [][NextFilter]_vars

\* A text is put together and its URLs are extracted.
NextText ==
  \/ TextAddWord
  \/ ExtractUrls

SpecText == Init /\ [][NextText]_vars

\* A file name is put together and sanitized.
NextName ==
  \/ NameAddChar
  \/ SanitizeCall

SpecName == Init /\ [][NextName]_vars

\* The download tab and the playlist tab share one YouTubeDownloader: a
\* batch of up to NShared URLs without pacing runs while a playlist of up to
\* NShared entries is fetched without a filter.
SmallRuns ==
  /\ b_total <= NShared
  /\ ~b_anti_ban
  /\ Len(pl_entries) <= NShared
  /\ pl_filter = NoFilter

NextBoth ==
  \/ Cancel
  \/ StartBatch /\ SmallRuns'
  \/ BatchCheck
  \/ BatchItemCallback
  \/ DownloadEnter
  \/ ProgressHook
  \/ ProgressHookCancelled
  \/ DownloadSucceed
  \/ DownloadFail
  \/ DownloadWorkerFinished
  \/ OnDownloadFinished
  \/ StartFetch /\ SmallRuns'
  \/ FetchExtractEntries /\ SmallRuns'
  \/ FetchCheck
  \/ FetchResolve
  \/ FetchResolveFail
  \/ PlaylistWorkerFinished
  \/ OnPlaylistFetched

SpecBoth == Init /\ [][NextBoth]_vars

\* Caption tracks are chosen for videos with different caption maps.
NextCaption ==
  \/ CaptionSelect

SpecCaption == Init /\ [][NextCaption]_vars

\* ---- the asset of a caption track ----
NextAsset ==
  \/ AssetAdd
  \/ SelectSubtitleUrl

SpecAsset == Init /\ [][NextAsset]_vars

\* ---- _parse_json3 ----
NextJson3 ==
  \/ Json3Document
  \/ Json3AddEvent
  \/ ParseJson3

SpecJson3 == Init /\ [][NextJson3]_vars

\* ---- _passes_filter with numeric ranges ----
NextRange ==
  \/ PassesRangeCall

SpecRange == Init /\ [][NextRange]_vars

\* ---- the percentage of a progress event ----
NextHook ==
  \/ ProgressPercentCall

SpecHook == Init /\ [][NextHook]_vars

\* ---- one SpacesDownloadWorker ----
NextSpaces ==
  \/ SpacesCancel
  \/ SpacesStart
  \/ SpacesSetup
  \/ SpacesSetupRaise
  \/ SpacesCheck
  \/ SpacesExtractFail
  \/ SpacesExtractOk
  \/ SpacesHook
  \/ SpacesHookCancelled
  \/ SpacesDownloadOk
  \/ SpacesDownloadFail

SpecSpaces == Init /\ [][NextSpaces]_vars

\* ---- the four workers, one run at a time ----
BatchFresh == b_pc = "idle" /\ b_term = <<>> /\ n_ops = 0

FetchFresh == pl_pc = "idle" /\ pl_term = <<>> /\ n_ops = 0

TwFresh == w_pc = "idle" /\ w_signals = <<>>

SpacesFresh == sp_pc = "idle"

\* the URL lists and playlists of these runs have at most NShared elements
RunSizes == b_total <= NShared /\ Len(pl_entries) <= NShared

\* A DownloadWorker, a PlaylistFetchWorker, a TranscribeWorker or a
\* SpacesDownloadWorker runs while no worker of another kind has run.
NextRuns ==
  \/ NextBatch /\ RunSizes' /\ pl_pc = "idle" /\ pl_term = <<>> /\ TwFresh /\ SpacesFresh
  \/ NextFetch /\ RunSizes' /\ b_pc = "idle" /\ b_term = <<>> /\ TwFresh /\ SpacesFresh
  \/ NextWorker /\ BatchFresh /\ FetchFresh /\ SpacesFresh
  \/ NextSpaces /\ BatchFresh /\ FetchFresh /\ TwFresh

SpecRuns == Init /\ [][NextRuns]_vars

\* ---- the two playlist filters ----
NextPanel ==
  \/ FilterPanelSet
  \/ ListAddVideo
  \/ FilterBothWays

SpecPanel == Init /\ [][NextPanel]_vars

(***************************************************************************)
(* Properties of download_batch and get_playlist_info                      *)
(***************************************************************************)
BatchOver == b_pc \in {"returned", "emitted"}

\* C1: a cancel() that arrives after item k passed the cancellation check
\* and before item k+1 begins leaves at most k results and no download()
\* call for any item after k.
C1_CancelStopsAfterItemK ==
  b_cancel_at >= 1 =>
     /\ Len(downloaded_files) <= b_cancel_at
     /\ \A j \in 1..NUrls : j > b_cancel_at => b_dl_calls[j] = 0

\* C2: an operation leaves its loop through the cancellation check only if
\* cancel() was signalled during that operation (every operation clears the
\* flag when it starts); here for get_playlist_info.
C2_EarlierCancelNeverStopsLaterFetch ==
  pl_broke => pl_cancel_during

\* C4: every attempted URL is passed to download() exactly once and gives
\* exactly one entry at its own position, an error entry exactly when the
\* call raised and the returned value otherwise; a failure never keeps the
\* following items from being attempted.
C4_OneEntryPerAttemptedUrl ==
  /\ \A j \in 1..NUrls : b_dl_calls[j] <= 1
  /\ Len(b_outcomes) = Len(downloaded_files)
  /\ \A j \in 1..Len(downloaded_files) :
        /\ downloaded_files[j].url = j
        /\ b_dl_calls[j] = 1
        /\ (downloaded_files[j].kind = "error") <=> b_outcomes[j].raised
        /\ ~b_outcomes[j].raised => downloaded_files[j].kind = b_outcomes[j].value
  /\ \A j \in 1..NUrls :
        b_dl_calls[j] = 1 =>
           \/ j <= Len(downloaded_files)
           \/ b_pc = "dl_run" /\ j = b_i + 1
  /\ (BatchOver /\ ~b_broke) => Len(downloaded_files) = b_total

\* A finished batch in which a failed item is followed by a downloaded one.
C4_Witness ==
  /\ BatchOver
  /\ \E j \in 1..Len(downloaded_files) : \E k \in 1..Len(downloaded_files) :
        /\ j < k
        /\ downloaded_files[j].kind = "error"
        /\ downloaded_files[k].kind = "path"

\* C5: the list returned by a cancelled batch holds no error entry produced
\* by the cancellation itself.
C5_CancelNotRecordedAsError ==
  \A j \in 1..Len(downloaded_files) :
     ~(downloaded_files[j].kind = "error" /\ downloaded_files[j].cause = "cancelled")

\* The filter-passing videos among the resolved entries, in playlist order.
PassingResolved ==
  LET Test(r) == _passes_filter(r.video, pl_filter)
      sel == SelectSeq(pl_resolved, Test)
  IN  [k \in 1..Len(sel) |-> sel[k].video]

\* C6: a fetch that observed the cancellation returns normally (finished,
\* never error) with exactly the filter-passing videos among the entries
\* resolved before the cancel was observed, in playlist order, and resolves
\* no entry after that.
C6_CancelledFetchReturnsPartial ==
  pl_broke =>
     /\ videos = PassingResolved
     /\ \A k \in 1..Len(pl_resolved) : pl_resolved[k].idx <= pl_seen_at
     /\ \A k \in 1..Len(pl_resolved) : \A m \in 1..Len(pl_resolved) :
           k < m => pl_resolved[k].idx < pl_resolved[m].idx
     /\ pl_term \in {<<>>, <<"finished">>}
     /\ pl_pc \in {"emitted", "idle"} => pl_term = <<"finished">>

\* A cancelled fetch that finished with one of two resolved videos kept.
C6_Witness ==
  /\ pl_broke
  /\ pl_term = <<"finished">>
  /\ Len(pl_resolved) = 2
  /\ Len(videos) = 1

\* C7: items are processed in input order: no event of an item follows an
\* event of a later item; and, the delay notices apart, the log of a batch
\* starts with item_callback(1), every later item_callback carries the next
\* number, and every progress event or result belongs to the item announced
\* last and comes before that item's result.
C7_BatchEventsInInputOrder ==
  LET NotDelay(e) == e.kind # "delay"
      log == SelectSeq(b_events, NotDelay)
  IN  /\ \A q \in 2..Len(b_events) : b_events[q - 1].item <= b_events[q].item
      /\ \A q \in 1..Len(log) :
            LET e == log[q]
                prev == IF q = 1 THEN Event("result", 0) ELSE log[q - 1]
            IN  IF e.kind = "item"
                THEN e.item = prev.item + 1
                ELSE /\ e.kind \in {"progress", "result"}
                     /\ e.item = prev.item
                     /\ prev.kind \in {"item", "progress"}

\* A finished batch of at least two items with progress on the second one.
C7_Witness ==
  /\ BatchOver
  /\ Len(downloaded_files) >= 2
  /\ \E p \in 1..Len(b_events) : b_events[p] = Event("progress", 2)

(***************************************************************************)
(* Properties of load_whisper_model                                        *)
(***************************************************************************)
\* The model a successful load_whisper_model(m) must leave in its branch.
ExpectedModel(branch, m) == BranchName(branch, m)

\* C8: whenever load_whisper_model(m) returns successfully with the
\* standard or the fast engine selected, the model held for that engine was
\* loaded with size m.
C8_ReturnedModelHasRequestedSize ==
  \A t \in Threads :
     (t_ret[t].ok /\ t_ret[t].branch \in {"openai-whisper", "faster-whisper"})
        => t_ret[t].held = ExpectedModel(t_ret[t].branch, t_ret[t].arg)

\* C9: a load_whisper_model call that directly follows a successful call
\* with the same engine selection and the same model name (any name for the
\* specialized engine) never invokes the engine's model-load function.
C9_RepeatedLoadIsNoOp ==
  \A t \in Threads :
     t_pc[t] = "loading" =>
        ~(/\ last_call.ok
          /\ last_call.branch = t_branch[t]
          /\ (t_branch[t] = "kotoba" \/ last_call.arg = t_arg[t]))

\* A repeated call that has passed the already-loaded test and is leaving
\* without a load, on the fast engine with 'large'.
C9_Witness ==
  \E t \in Threads :
     /\ t_pc[t] = "release"
     /\ last_call.ok
     /\ last_call.branch = "faster-whisper"
     /\ t_branch[t] = "faster-whisper"
     /\ last_call.arg = "large"
     /\ t_arg[t] = "large"
     /\ load_calls = 1

InLoadSection(t) == t_pc[t] \in {"select", "select_engine", "loading", "release"}

\* C10: two threads that call load_whisper_model with the same engine and
\* model on an instance with nothing loaded are never inside the load section
\* together, and the engine's model-load function runs exactly once.
C10_ConcurrentLoadsSerialize ==
  /\ \A t \in Threads : \A u \in Threads :
        (t # u) => ~(InLoadSection(t) /\ InLoadSection(u))
  /\ \A t \in Threads : InLoadSection(t) => model_load_lock = t
  /\ ( /\ n_calls = 2
       /\ \A t \in Threads : t_pc[t] = "idle" /\ t_ret[t].ok
       /\ t_ret[1].branch = t_ret[2].branch
       /\ t_ret[1].arg = t_ret[2].arg )
     => load_calls = 1

\* Both threads have returned from overlapping first calls with the same
\* engine and model.
C10_Witness ==
  /\ n_calls = 2
  /\ \A t \in Threads : t_pc[t] = "idle" /\ t_ret[t].ok
  /\ t_ret[1].branch = t_ret[2].branch
  /\ t_ret[1].arg = t_ret[2].arg
  /\ \E t \in Threads : t_overlap[t]
  /\ load_calls = 1

(***************************************************************************)
(* Properties of transcribe_youtube                                        *)
(***************************************************************************)
\* C3: once cancel() has been called during the caption fetch or the audio
\* download of transcribe_youtube, the call neither enters the Transcribing
\* stage nor ends with a successful result.
C3_CancelAbortsPipeline ==
  p_cancelled_in \in {"captions", "downloading"} =>
     /\ \A k \in 1..Len(p_stages) : p_stages[k] # "transcribing"
     /\ p_result.status # "ok"

\* The stages reported so far include `stage`.
StageReported(stage) == \E k \in 1..Len(p_stages) : p_stages[k] = stage

\* C11: when the caption fetch of transcribe_youtube (captions preferred)
\* gave no usable segment, the call never ends at the caption stage: it goes
\* on to the audio download, invokes speech-to-text at most once, and every
\* successful end comes from exactly one speech-to-text invocation.
C11_EmptyCaptionsFallBack ==
  \A t \in PipeThreads :
     (t_op[t] = "youtube" /\ p_prefer /\ p_captions # NotFetched
        /\ ~UsableCaptions(p_captions)) =>
        /\ p_result.source # "youtube"
        /\ stt_calls <= 1
        /\ t_pc[t] \notin {"captions_done", "download_start"} =>
              (p_tempdir # "none" /\ StageReported("downloading"))
        /\ p_result.status = "ok" => stt_calls = 1

\* A call whose caption document parsed to no segment ended with a
\* transcript made by speech-to-text.
C11_Witness ==
  \E t \in PipeThreads :
     /\ t_op[t] = "youtube" /\ t_pc[t] = "idle"
     /\ p_prefer /\ p_captions = CaptionsResult(0)
     /\ p_result.status = "ok" /\ stt_calls = 1

\* C12: when the caption fetch returned at least one segment the call ends
\* there with source 'youtube': no audio download, no model load, no
\* speech-to-text; and without prefer_youtube_subtitles the caption fetch
\* is never attempted.
C12_CaptionsShortCircuit ==
  \A t \in PipeThreads :
     t_op[t] = "youtube" =>
        /\ (UsableCaptions(p_captions) /\ t_pc[t] # "captions_done") =>
              /\ t_pc[t] = "idle"
              /\ p_result = [status |-> "ok", source |-> "youtube"]
              /\ p_tempdir = "none"
              /\ t_branch[t] = "none"
              /\ stt_calls = 0
              /\ ~StageReported("downloading")
              /\ ~StageReported("transcribing")
        /\ p_result.source = "youtube" => UsableCaptions(p_captions)
        /\ ~p_prefer => (p_captions = NotFetched /\ ~StageReported("fetching"))

\* A call that ended with the captions returned by the caption fetch.
C12_Witness ==
  \E t \in PipeThreads :
     /\ t_op[t] = "youtube" /\ t_pc[t] = "idle"
     /\ p_captions = CaptionsResult(2)
     /\ p_result = [status |-> "ok", source |-> "youtube"]

\* C13: when a transcribe_youtube call has ended, however it ended, the
\* temporary audio directory it created no longer exists.
C13_TempDirRemovedAtExit ==
  \A t \in PipeThreads :
     (t_op[t] = "youtube" /\ t_pc[t] = "idle") => p_tempdir # "exists"

\* A call that was cancelled and ended with a transcription error, after the
\* audio was downloaded.
C13_Witness ==
  \E t \in PipeThreads :
     /\ t_op[t] = "youtube" /\ t_pc[t] = "idle"
     /\ p_result.status = "error" /\ stt_calls = 1
     /\ p_cancelled_in = "downloading"
     /\ p_tempdir = "removed"

(***************************************************************************)
(* Properties of TranscribeWorker                                          *)
(***************************************************************************)
\* C14: in a run over two or more items a failing item does not end the
\* run: every item is attempted and the run ends with a finished signal.
C14_ItemFailureDoesNotAbortRun ==
  (w_pc = "done" /\ w_total >= 2) =>
     /\ Len(w_outcomes) = w_total
     /\ \E k \in 1..Len(w_signals) : w_signals[k].kind = "finished"

\* Number of segments of the first j results.
RECURSIVE SegmentsBefore(_)
SegmentsBefore(j) ==
  IF j = 0 THEN 0 ELSE SegmentsBefore(j - 1) + Len(results[j].segments)

C16_SrtRoundTrip ==
  call_fn = "srt_round_trip" =>
     /\ Len(call_out) = Len(call_in)
     /\ \A i \in 1..Len(call_in) : call_out[i] = call_in[i]

\* The cues of the parsed document that have a well-formed timestamp line.
ValidCues ==
  LET Valid(cue) == cue.stamp = "time"
  IN  SelectSeq(call_in, Valid)

\* The words of a cue text as the parser should give them: a, or a b.
CueWords(text) == IF text = <<<<"a">>>> THEN <<"a">> ELSE <<"a", " ", "b">>

C18_EngineOnlySeesValidUrls ==
  call_fn \in {"download_batch", "get_playlist_info"} =>
     validate_youtube_url(call_out)[1]

\* The three requirements of the validator, stated on the written URL.
SchemeIsHttp(url) == url.scheme \in {"http", "https", "HTTPS"}
HostIsAllowListed(url) ==
  url.netloc \in {"youtube.com", "WWW.YouTube.com", "youtu.be", "music.youtube.com"}
HasPathOrQuery(url) == url.path # "" \/ url.query # ""

\* The URL can be split into its parts (no unbalanced bracket in the host).
IsParsable(url) == url.netloc # "[bad"

\* C19 as stated: ok exactly when the three requirements hold; otherwise
\* the unsupported-host error when only the host requirement fails and the
\* malformed-URL error in every other case.
C19_ValidatorAsStated ==
  call_fn = "validate_youtube_url" =>
     LET ok == SchemeIsHttp(call_in) /\ HostIsAllowListed(call_in) /\ HasPathOrQuery(call_in)
         only_host == SchemeIsHttp(call_in) /\ ~HostIsAllowListed(call_in)
                        /\ HasPathOrQuery(call_in)
     IN  call_out = IF ok THEN <<TRUE, "">>
                    ELSE IF only_host THEN <<FALSE, "unsupported_url">>
                    ELSE <<FALSE, "invalid_url">>

\* C19 amended: ok exactly when the three requirements hold; otherwise the
\* unsupported-host error whenever the URL can be parsed, the scheme
\* requirement holds and the host requirement fails (with or without a path
\* or query), and the malformed-URL error in every other case; a result is
\* always returned.
C19_ValidatorResult ==
  call_fn = "validate_youtube_url" =>
     LET ok == SchemeIsHttp(call_in) /\ HostIsAllowListed(call_in) /\ HasPathOrQuery(call_in)
         bad_host == IsParsable(call_in) /\ SchemeIsHttp(call_in)
                       /\ ~HostIsAllowListed(call_in)
     IN  call_out = IF ok THEN <<TRUE, "">>
                    ELSE IF bad_host THEN <<FALSE, "unsupported_url">>
                    ELSE <<FALSE, "invalid_url">>

\* An upper-case spelling of an allow-listed host was accepted.
C19_Witness ==
  /\ call_fn = "validate_youtube_url"
  /\ call_in = Url("HTTPS", "WWW.YouTube.com", "/watch", "v=abc")
  /\ call_out = <<TRUE, "">>

(***************************************************************************)
(* Properties of the playlist filter                                       *)
(***************************************************************************)
\* C20: a video passes a date-range filter [from, to] exactly when it has a
\* parseable upload date d with from <= d <= to; a video without an upload
\* date does not pass.
C20_DateRangeFilter ==
  call_fn = "_passes_filter" =>
     LET date == call_in[1].upload_date
         from == call_in[2].date_from
         to == call_in[2].date_to
     IN  call_out <=> (date >= 1 /\ from <= date /\ date <= to)

\* Videos of every shape get_video_info builds: with and without a title,
\* zero and positive duration and view count, every kind of upload date.
FilterVideos ==
  { VideoInfo(1, title, duration, views, date) :
      title \in {<<>>, <<"a", "b">>, <<"A">>}, duration \in {0, 60},
      views \in {0, 50}, date \in UploadDates }

\* The videos get_video_info resolved in this fetch, in order.
ResolvedVideos == [k \in 1..Len(pl_resolved) |-> pl_resolved[k].video]

\* C21: with no filter, and with a PlaylistFilter whose fields are all
\* unset, _passes_filter is true for every video, so the list built by
\* get_playlist_info holds every resolved entry, in order.
C21_UnsetFilterPassesEverything ==
  /\ \A v \in FilterVideos :
        _passes_filter(v, NoFilter) /\ _passes_filter(v, PlaylistFilter)
  /\ pl_filter \in {NoFilter, PlaylistFilter} => videos = ResolvedVideos

C21_Witness ==
  /\ pl_filter = PlaylistFilter
  /\ pl_pc = "returned"
  /\ Len(pl_resolved) >= 2
  /\ \A v \in SampleVideos : \E k \in 1..Len(videos) : videos[k] = v


(***************************************************************************)
(* Properties of extract_urls_from_text                                    *)
(***************************************************************************)
\* The links of a text in the order of their first occurrence in it.
RECURSIVE FirstOccurrences(_)
FirstOccurrences(text) ==
  IF text = <<>> THEN <<>>
  ELSE LET before == FirstOccurrences(SubSeq(text, 1, Len(text) - 1))
           word == text[Len(text)]
       IN  IF word.pattern = "none" \/ \E k \in 1..Len(before) : before[k] = word
           THEN before ELSE Append(before, word)

\* C22: extract_urls_from_text returns each distinct link of the text once,
\* in the order of the links' first occurrences in the text, whichever
\* pattern each of them matches.
C22_LinksInTextOrder ==
  call_fn = "extract_urls_from_text" => call_out = FirstOccurrences(call_in)

\* The part of C22 about duplicates alone: every link of the text is
\* returned, and none twice.
C22_EachLinkOnce ==
  call_fn = "extract_urls_from_text" =>
     /\ \A k \in 1..Len(call_in) :
           call_in[k].pattern # "none" => \E j \in 1..Len(call_out) : call_out[j] = call_in[k]
     /\ \A j \in 1..Len(call_out) : \E k \in 1..Len(call_in) : call_out[j] = call_in[k]
     /\ \A i, j \in 1..Len(call_out) : call_out[i] = call_out[j] => i = j

(***************************************************************************)
(* Properties of sanitize_filename                                         *)
(***************************************************************************)
HasPathSeparator(name) == \E k \in 1..Len(name) : name[k] \in {"/", "\\"}

\* C23: the name sanitize_filename returns is not empty, holds no path
\* separator and none of < > : " | ? *, has no two underscores in a row and
\* neither starts nor ends with an underscore or a space; a name that
\* holds a path separator is not returned as it was given.
C23_SanitizedName ==
  call_fn = "sanitize_filename" =>
     LET name == call_out.name
     IN  /\ name # <<>>
         /\ \A k \in 1..Len(name) :
               name[k] \notin {"/", "\\", "<", ">", ":", "\"", "|", "?", "*"}
         /\ \A k \in 1..(Len(name) - 1) : ~(name[k] = "_" /\ name[k + 1] = "_")
         /\ name[1] \notin {"_", " "}
         /\ name[Len(name)] \notin {"_", " "}
         /\ HasPathSeparator(call_in) => name # call_in

C23_Witness ==
  /\ call_fn = "sanitize_filename"
  /\ call_in = <<".", "/", "a", "<">>
  /\ call_out.name = <<"a">>

(***************************************************************************)
(* Properties of the cancellation flag during download_batch               *)
(***************************************************************************)
\* C24: within one download_batch call the flag is cleared once, before the
\* first item, and by nothing after that: once cancel() has been called
\* during the batch the flag stays set until download_batch returns.
C24_CancelStaysSetDuringBatch ==
  (b_cancel_at # None /\ (BatchInLoop \/ b_pc = "returned")) => dl_cancel_flag

(***************************************************************************)
(* Properties of a batch and a fetch that share the cancellation flag      *)
(***************************************************************************)
\* C25: after a cancel() called while download_batch and get_playlist_info
\* are both running on the same instance, the batch starts no item beyond
\* those that had passed its cancellation check, and the fetch resolves no
\* entry beyond those that had passed its check.
C25_CancelInterruptsBoth ==
  c_both # NoCancel =>
     /\ \A j \in 1..NUrls : j > c_both.items => b_dl_calls[j] = 0
     /\ \A k \in 1..Len(pl_resolved) : pl_resolved[k].idx <= c_both.entries

(***************************************************************************)
(* Properties of the progress hook                                         *)
(***************************************************************************)
\* C26: a progress hook invoked while the cancellation flag is set raises
\* at once: no step taken with the flag set delivers a progress event, and
\* a download() that ends with the cancellation signal was cut off by a
\* hook that found the flag set and gives one error entry for its item.
C26_HookRaisesWhenCancelled ==
  [][ /\ dl_cancel_flag => b_events' # Append(b_events, Event("progress", b_i + 1))
      /\ b_outcomes' = Append(b_outcomes, Raised("cancelled")) =>
            /\ dl_cancel_flag
            /\ b_pc = "dl_run"
            /\ downloaded_files' = Append(downloaded_files, Result(b_i + 1, "error", "cancelled"))
            /\ b_pc' = "check" ]_vars

\* A batch in which a hook raised the cancellation signal for the first item.
C26_Witness ==
  /\ Len(b_outcomes) >= 1
  /\ b_outcomes[1] = Raised("cancelled")
  /\ downloaded_files[1] = Result(1, "error", "cancelled")

(***************************************************************************)
(* Properties of the pacing delay                                          *)
(***************************************************************************)
\* Number of pacing delays taken for item j.
DelaysFor(j) ==
  LET IsDelayOf(e) == e = Event("delay", j)
  IN  Len(SelectSeq(b_events, IsDelayOf))

\* C27: with anti_ban, every item after the first that is attempted has
\* exactly one pacing delay (the k-th delay of a batch is the one of item
\* k + 1), the first item has none, and without anti_ban there is no delay
\* at all; the delay of an item comes after the previous
\* item's result and that iteration's cancellation check (an iteration
\* that breaks on the check delays nothing) and directly before the item's
\* item_callback.
C27_OneDelayBeforeLaterItems ==
  /\ LET IsDelay(e) == e.kind = "delay"
         IsItem(e) == e.kind = "item"
         delays == SelectSeq(b_events, IsDelay)
         items == SelectSeq(b_events, IsItem)
     IN  /\ \A k \in 1..Len(delays) : delays[k].item = k + 1
         /\ delays # <<>> => b_anti_ban
         /\ b_anti_ban => \A k \in 1..Len(items) : items[k].item - 1 <= Len(delays)
  /\ \A q \in 1..Len(b_events) :
        b_events[q].kind = "delay" =>
           /\ q > 1
           /\ b_events[q - 1] = Event("result", b_events[q].item - 1)
           /\ IF q = Len(b_events)
              THEN b_pc = "callback" /\ b_i + 1 = b_events[q].item
              ELSE b_events[q + 1] = Event("item", b_events[q].item)
  /\ b_broke => \A q \in 1..Len(b_events) : b_events[q].item <= b_i

\* A finished paced batch of three items: a delay before the second and
\* before the third.
C27_Witness ==
  /\ BatchOver
  /\ b_anti_ban
  /\ Len(downloaded_files) = 3
  /\ DelaysFor(1) = 0
  /\ DelaysFor(2) = 1
  /\ DelaysFor(3) = 1

(***************************************************************************)
(* Properties of transcribe_audio                                          *)
(***************************************************************************)
\* C28: the engine transcribe_audio dispatches to is the one whose model
\* load_whisper_model made ready in the same call, and its model is loaded,
\* also when set_engine or set_use_kotoba is called by another thread
\* between the load and the dispatch.
C28_DispatchedEngineIsLoaded ==
  \A t \in PipeThreads :
     t_pc[t] = "stt" =>
        /\ p_engine = t_branch[t]
        /\ HeldModel(p_engine) # NoModel

(***************************************************************************)
(* Properties of a failed model load                                       *)
(***************************************************************************)
\* The loaded state of the Transcriber.
LoadedState == <<whisper_model, faster_whisper_model, kotoba_pipeline, model_name>>

\* Thread t is inside load_whisper_model's lock and no model has been
\* assigned in this call.
LoadPending(t) == t_pc[t] \in {"select", "select_engine", "loading"}

HasTrack(l) ==
  call_in.subtitles[l] = "formats" \/ call_in.automatic_captions[l] = "formats"

\* C30: the caption track is chosen by language first: it is in the
\* requested language whenever a track of either kind exists in it, a
\* fallback language is used only when the requested one has no track, and
\* within the chosen language the human-authored track is preferred.
C30_TrackChosenByLanguageFirst ==
  call_fn = "get_youtube_subtitles" =>
     /\ HasTrack(call_in.lang) => call_out.lang = call_in.lang
     /\ (call_out # NoTrack /\ call_out.lang # call_in.lang) => ~HasTrack(call_in.lang)
     /\ (call_out # NoTrack /\ call_in.subtitles[call_out.lang] = "formats")
           => call_out.kind = "subtitles"

(***************************************************************************)
(* Properties of the caption asset choice                                  *)
(***************************************************************************)
HasExt(caption_data, ext) == \E k \in 1..Len(caption_data) : caption_data[k].ext = ext

\* the most preferred format among the assets of the track, "None" when the
\* track has no asset in a supported format
PreferredExt(caption_data) ==
  IF HasExt(caption_data, "vtt") THEN "vtt"
  ELSE IF HasExt(caption_data, "srt") THEN "srt"
  ELSE IF HasExt(caption_data, "json3") THEN "json3"
  ELSE "None"

\* C31: among the assets of the selected track (each with a URL), the one
\* downloaded has the most preferred format the track offers: vtt if
\* present, else srt, else json3, whatever the order of the list.
C31_AssetByFormatPreference ==
  (call_fn = "select_subtitle_url" /\ \A k \in 1..Len(call_in) : call_in[k].has_url)
     => call_out.ext = PreferredExt(call_in)

\* What the code does instead: the first asset of the list, in the
\* provider's order, whose format is one of the three.
C31_FirstSupportedInListOrder ==
  call_fn = "select_subtitle_url" =>
     LET Supported(fmt) == fmt.ext \in SupportedExts
         supported == SelectSeq(call_in, Supported)
     IN  IF supported # <<>> /\ supported[1].has_url
         THEN call_out = supported[1]
         ELSE call_out = NoAsset

(***************************************************************************)
(* Properties of _parse_json3                                              *)
(***************************************************************************)
\* an event the parser can read: an object whose 'segs', when present, is a
\* list of objects and whose time fields are numbers or absent
Json3WellFormed(event) ==
  /\ event.kind = "object"
  /\ event.segs \in {"absent", "text", "blank"}
  /\ event.tStartMs.is \in {"absent", "number"}
  /\ event.dDurationMs.is \in {"absent", "number"}

\* the segments of the well-formed events of a document, in order
Json3Expected(doc) ==
  IF doc.top # "events" THEN <<>>
  ELSE LET Gives(event) == Json3WellFormed(event) /\ event.segs = "text"
           kept == SelectSeq(doc.events, Gives)
       IN  [k \in 1..Len(kept) |-> Json3Event(kept[k]).segments[1]]

\* C32: _parse_json3 never raises: a document that cannot be parsed or has
\* not the expected structure gives the empty list, and malformed events are
\* skipped while the well-formed ones give their segments.
C32_ParseJson3NeverRaises ==
  call_fn = "_parse_json3" =>
     /\ call_out.exc = "None"
     /\ call_out.segments = Json3Expected(call_in)

\* What holds in the code: content that is no JSON gives the empty list, and
\* a document of well-formed events gives their segments.
C32_WellFormedDocumentParses ==
  (call_fn = "_parse_json3"
     /\ (call_in.top \in {"not_json", "no_events"} \/
           (call_in.top = "events" /\ \A k \in 1..Len(call_in.events) : Json3WellFormed(call_in.events[k]))))
     => /\ call_out.exc = "None"
        /\ call_out.segments = Json3Expected(call_in)

\* C33: every segment a parser produces has start <= end, also for an event
\* with a negative duration.
C33_SegmentStartBeforeEnd ==
  call_fn = "_parse_json3" =>
     \A k \in 1..Len(call_out.segments) : call_out.segments[k].start <= call_out.segments[k].end

(***************************************************************************)
(* Properties of the numeric ranges of _passes_filter                      *)
(***************************************************************************)
\* the constraint of a lower / upper bound that is set
AtLeast(bound, value) == bound # None => bound <= value

AtMost(bound, value) == bound # None => value <= bound

\* C34: _passes_filter is the conjunction of the constraints of all set
\* numeric fields; a bound set to 0 is a constraint like any other.
C34_RangesAreConjunction ==
  call_fn = "_passes_filter" =>
     LET video == call_in[1]
         f == call_in[2]
     IN  call_out <=> /\ AtLeast(f.min_views, video.view_count)
                      /\ AtMost(f.max_views, video.view_count)
                      /\ AtLeast(f.min_duration, video.duration)
                      /\ AtMost(f.max_duration, video.duration)

\* What holds in the code: the same with an upper bound of 0 read as unset.
C34_ZeroUpperBoundIsUnset ==
  call_fn = "_passes_filter" =>
     LET video == call_in[1]
         f == call_in[2]
         Upper(bound) == IF bound = 0 THEN None ELSE bound
     IN  call_out <=> /\ AtLeast(f.min_views, video.view_count)
                      /\ AtMost(Upper(f.max_views), video.view_count)
                      /\ AtLeast(f.min_duration, video.duration)
                      /\ AtMost(Upper(f.max_duration), video.duration)

(***************************************************************************)
(* Properties of the progress reports of get_playlist_info                 *)
(***************************************************************************)
\* the fetch went through its whole loop without the cancellation break
FetchRanToEnd == pl_pc \in {"returned", "emitted"} /\ ~pl_broke /\ pl_entries # <<>>

\* C35: in an uncancelled get_playlist_info the progress callback is invoked
\* once per entry with (i, total), i = 1..total in increasing order, each
\* time after entry i has been resolved; no entry is left without a report.
C35_ProgressOncePerEntry ==
  /\ \A k \in 1..Len(pl_progress) : pl_progress[k][1] <= pl_i
  /\ FetchRanToEnd =>
        pl_progress = [i \in 1..Len(pl_entries) |-> <<i, Len(pl_entries)>>]

\* What holds in the code: one report for each entry that is not None, in
\* increasing order, made before the entry is resolved.
C35_ProgressBeforeEachPresentEntry ==
  LET started == IF pl_pc = "resolve" THEN pl_i + 1 ELSE pl_i
      Present(i) == pl_entries[i] # "None"
      present == SelectSeq([i \in 1..started |-> i], Present)
  IN  pl_progress = [k \in 1..Len(present) |-> <<present[k], Len(pl_entries)>>]

(***************************************************************************)
(* Properties of the progress percentage                                   *)
(***************************************************************************)
IsPositive(field) == field.is = "number" /\ field.n > 0

\* the total the claim calls known: total_bytes, else total_bytes_estimate,
\* when positive; 0 when neither is
KnownTotal(d) ==
  IF IsPositive(d.total_bytes) THEN d.total_bytes.n
  ELSE IF IsPositive(d.total_bytes_estimate) THEN d.total_bytes_estimate.n
       ELSE 0

\* C36: on every 'downloading' event the hook reports downloaded / total x
\* 100 when a positive total is known, and 0 without raising when the total
\* is absent, zero or null.
C36_PercentOrZero ==
  call_fn = "_progress_hook" =>
     /\ call_out.exc = "None"
     /\ call_out.percent = IF KnownTotal(call_in) > 0
                           THEN (call_in.downloaded_bytes * 100) \div KnownTotal(call_in)
                           ELSE 0

\* What holds in the code: the same for every record whose estimate is not
\* null, or whose total_bytes is positive.
C36_PercentUnlessNullEstimate ==
  (call_fn = "_progress_hook"
     /\ (IsPositive(call_in.total_bytes) \/ call_in.total_bytes_estimate.is # "null"))
     => /\ call_out.exc = "None"
        /\ call_out.percent = IF KnownTotal(call_in) > 0
                              THEN (call_in.downloaded_bytes * 100) \div KnownTotal(call_in)
                              ELSE 0

(***************************************************************************)
(* Properties of SpacesDownloadWorker                                      *)
(***************************************************************************)
SpacesLast == sp_events[Len(sp_events)]

\* C37: once cancel() has been called no further URL is started; a download
\* in flight is aborted by the next progress-hook call; a run cancelled in
\* its loop ends with finished, not error, and the list it emits has exactly
\* one entry for each URL started.
C37_SpacesCancelStopsLoop ==
  [][ /\ sp_cancel_flag => sp_started' = sp_started
      /\ (sp_cancel_flag /\ sp_pc = "download") =>
            /\ sp_events' = sp_events
            /\ sp_pc' = "download" \/ Len(sp_results') = Len(sp_results) + 1
      /\ (sp_cancel # NotCancelled)' => sp_started' = sp_cancel.started'
      /\ (sp_cancel.pc \in SpacesLoopPcs /\ sp_pc = "done")' =>
            /\ SpacesLast' = Signal("finished", sp_started')
            /\ Len(sp_results') = sp_started'
            /\ \A k \in 1..Len(sp_events') : sp_events'[k].kind # "error" ]_vars

\* a run of three URLs cancelled during the download of the first, which
\* the hook then aborted
C37_Witness ==
  /\ sp_total = 3
  /\ sp_cancel = [pc |-> "download", started |-> 1]
  /\ sp_pc = "done"
  /\ sp_results = <<"ERROR">>
  /\ SpacesLast = Signal("finished", 1)

(***************************************************************************)
(* Properties of the workers' terminal events                              *)
(***************************************************************************)
IsTerminal(signal) == signal.kind \in {"finished", "error"}

\* the finished / error signals a SpacesDownloadWorker has emitted
SpacesTerminals == SelectSeq(sp_events, IsTerminal)

\* No terminal event while run() is in progress, one when it has ended,
\* never more than one.
TerminalOnce ==
  /\ Len(b_term) <= 1
  /\ b_pc \notin {"idle", "emitted"} => b_term = <<>>
  /\ b_pc = "emitted" => Len(b_term) = 1
  /\ Len(pl_term) <= 1
  /\ pl_pc \notin {"idle", "emitted"} => pl_term = <<>>
  /\ pl_pc = "emitted" => Len(pl_term) = 1
  /\ Len(w_signals) <= 1
  /\ w_pc \notin {"idle", "done"} => w_signals = <<>>
  /\ w_pc = "done" => Len(w_signals) = 1
  /\ Len(SpacesTerminals) <= 1
  /\ sp_pc \notin {"idle", "done"} => SpacesTerminals = <<>>
  /\ sp_pc = "done" => Len(SpacesTerminals) = 1 /\ IsTerminal(sp_events[Len(sp_events)])

\* C38: every run of DownloadWorker, PlaylistFetchWorker, TranscribeWorker
\* and SpacesDownloadWorker emits exactly one terminal event, finished or
\* error, never both and never neither, and no progress or item-progress
\* event after it.
C38_OneTerminalEventPerRun ==
  [][ /\ TerminalOnce'
      /\ (b_term # <<>> /\ b_term' = b_term) => b_events' = b_events
      /\ (pl_term # <<>> /\ pl_term' = pl_term) => pl_progress' = pl_progress
      /\ w_signals' # <<>> => ~w_callback' /\ w_pc' \in {"done", "idle"}
      /\ SpacesTerminals # <<>> => sp_events' = sp_events ]_vars

\* a TranscribeWorker whose second transcribe call raised has emitted error
\* and nothing else
C38_Witness ==
  /\ w_pc = "done"
  /\ w_outcomes = <<"ok", "raised">>
  /\ w_signals = <<[kind |-> "error"]>>
  /\ ~w_callback

(***************************************************************************)
(* Properties of the two playlist filters                                  *)
(***************************************************************************)
\* C39: for the same filter settings and the same list of videos,
\* apply_filter keeps exactly the videos for which _passes_filter returns
\* true during the fetch.
C39_FiltersAgree ==
  call_fn = "apply_filter" => call_out.applied = call_out.fetched

\* What holds in the code: they agree when every video has a parseable
\* upload date or the date filter is off, and no maximum is 0.
C39_FiltersAgreeOnDatedVideos ==
  (call_fn = "apply_filter"
     /\ (call_in.settings.use_date_filter =>
            \A k \in 1..Len(call_in.all_videos) : upload_datetime(call_in.all_videos[k]) # None)
     /\ (call_in.settings.use_view_filter => call_in.settings.views[2] # 0)
     /\ (call_in.settings.use_duration_filter => call_in.settings.minutes[2] # 0))
     => call_out.applied = call_out.fetched
=============================================================================
